---- MODULE Spec2Model ----
(***************************************************************************)
(* A state-machine model of memvid-mcp: the temporal knowledge graph       *)
(* (temporal.py), the waypoint association graph (waypoint.py), the decay  *)
(* and reinforcement engine (decay.py) and the memory core (memory.py).    *)
(*                                                                         *)
(* Numbers.  Python floats are modelled in fixed point:                    *)
(*   - salience, confidence, boost      in thousandths (1.0 = 1000);       *)
(*   - waypoint weights                 in ten-thousandths (1.0 = 10000);  *)
(*   - timestamps                       in milliseconds, as in the code,   *)
(*     counted from an origin a few days before the first operation.       *)
(* Divisions round down.                                                   *)
(***************************************************************************)
EXTENDS Integers, Sequences, FiniteSets, TLC

VARIABLES
    now,          \* the position of the wall clock in ClockSeq
    facts,        \* TemporalGraph._facts : fact id -> fact record
    nextFact,     \* the next fresh fact id (uuid4 never repeats)
    invalidated,  \* history: ids of the facts invalidate_fact has been applied to
    decays,       \* history: the number of apply_confidence_decay calls so far
    edges,        \* WaypointGraph._edges : src id -> list of [id, weight], in
                  \* the insertion order of the inner dict (created_at and
                  \* updated_at are not modelled: nothing reads them)
    wops,         \* history: the number of calls that changed the graph so far
    lastW,        \* history: the last WaypointGraph call and what it returned
    memories,     \* MemvidMemory._memories : memory id -> memory record
    index,        \* the ids of the chunks in the video file; empty until the
                  \* first build, when there is no retriever
    nextId,       \* the next fresh memory id (uuid4 never repeats)
    cops,         \* history: the number of calls on the core so far
    last,         \* history: the last call on the core and what it returned
    deletedIds,   \* history: the ids of the memories deleted so far
    abortedIds,   \* history: the ids of the memories whose add was left by an
                  \* exception of the index rebuild
    stores,       \* DualMemoryManager: scope -> the state of that scope's
                  \* MemvidMemory (memories, edges, index, facts)
    rops,         \* history: the number of calls on the manager so far
    lastR,        \* history: the last call on the manager and what it returned
    manager,      \* server._memory: "none" until get_memory has created the
                  \* DualMemoryManager, "created" from then on
    suspended,    \* the handle_tool_call coroutines that have given the event
                  \* loop the control back and wait to be resumed
    lastS,        \* history: the last handle_tool_call and how it ended
    xp            \* the frame of a running WaypointGraph.expand: its arguments,
                  \* its locals queue, visited, expanded and count, and the
                  \* number of iterations of its while loop so far

tvars == <<now, facts, nextFact, invalidated, decays>>

wvars == <<edges, wops, lastW>>

cvars == <<memories, index, nextId, cops, last, deletedIds, abortedIds>>

rvars == <<stores, rops, lastR>>

svars == <<manager, suspended, lastS>>

vars == <<now, facts, nextFact, invalidated, decays, edges, wops, lastW,
          memories, index, nextId, cops, last, deletedIds, abortedIds, stores,
          rops, lastR, manager, suspended, lastS, xp>>

----------------------------------------------------------------------------
(* Helpers *)

Max(a, b) == IF a >= b THEN a ELSE b
Min(a, b) == IF a <= b THEN a ELSE b

\* None
Null == -1

----------------------------------------------------------------------------
(* Time *)

one_day_ms == 86400000

Day(n) == n * one_day_ms

\* The instants the clock passes through
ClockSeq == <<Day(2), Day(22)>>

\* A time argument that is a string datetime.fromisoformat rejects
BadIso == -2

\* A _parse_time that takes every string
ParseRaises_Never(t) == FALSE

\* Whether TemporalGraph._parse_time raises ValueError
ParseRaises(t) == t = BadIso

\* TemporalGraph._parse_time for None, for an integer timestamp and for an
\* ISO string (given as the timestamp it stands for)
ParseTime(t, nw) == IF t = Null THEN nw ELSE t

----------------------------------------------------------------------------
(* Temporal knowledge graph: bounds and inputs *)

MaxFacts == 2
MaxDecays == 1
MaxInvalidations == 1

Subjects == {"Alice", "Bob"}
Predicates == {"works_at"}
Objects == {"Google"}

\* valid_from / valid_to arguments: None (now), two instants one millisecond
\* apart in the past, and one in the future
TimeArgs == {Null, Day(1), Day(1) + 1, Day(12)}

\* confidence arguments, in thousandths: the schema allows 0..1
ConfidenceArgs == {50, 1000}

\* The query instants checked
QueryTimes == {Day(1), Day(1) + 1, Day(2) - 1, Day(2), Day(2) + 1, Day(12) - 1,
               Day(12), Day(13), Day(22)}

----------------------------------------------------------------------------
(* Temporal knowledge graph: operations *)

\* The condition under which insert_fact closes an existing fact
ShouldClose_OffByOne(fact, subject, predicate, valid_from_ts) ==
    /\ fact.subject = subject
    /\ fact.predicate = predicate
    /\ fact.valid_to = Null
    /\ fact.valid_from < valid_from_ts - 1

ShouldClose(fact, subject, predicate, valid_from_ts) ==
    /\ fact.subject = subject
    /\ fact.predicate = predicate
    /\ fact.valid_to = Null
    /\ fact.valid_from < valid_from_ts

\* TemporalGraph.insert_fact: the fact map after the call
insert_fact(fs, fact_id, subject, predicate, obj, valid_from, confidence, nw) ==
    LET valid_from_ts == ParseTime(valid_from, nw)
        closed == [fid \in DOMAIN fs |->
                     IF ShouldClose(fs[fid], subject, predicate, valid_from_ts)
                     THEN [fs[fid] EXCEPT !.valid_to = valid_from_ts - 1,
                                          !.last_updated = nw]
                     ELSE fs[fid]]
        new == [subject |-> subject, predicate |-> predicate, object |-> obj,
                valid_from |-> valid_from_ts, valid_to |-> Null,
                confidence |-> confidence, last_updated |-> nw]
    IN  [fid \in DOMAIN fs \cup {fact_id} |->
            IF fid = fact_id THEN new ELSE closed[fid]]

min_confidence_default == 100

\* The time test of query_at_time
ValidAt(fact, ts) ==
    /\ ~(fact.valid_from > ts)
    /\ ~(fact.valid_to # Null /\ fact.valid_to <= ts)

\* TemporalGraph.query_at_time: the ids of the facts returned.  A selector of
\* "" (or None) is falsy and filters nothing.
query_at_time(fs, subject, predicate, obj, at, min_confidence, nw) ==
    LET ts == ParseTime(at, nw)
    IN  {fid \in DOMAIN fs :
            /\ ValidAt(fs[fid], ts)
            /\ ~(fs[fid].confidence < min_confidence)
            /\ ~(subject # "" /\ fs[fid].subject # subject)
            /\ ~(predicate # "" /\ fs[fid].predicate # predicate)
            /\ ~(obj # "" /\ fs[fid].object # obj)}

\* TemporalGraph.invalidate_fact
invalidate_fact(fs, fact_id, valid_to, nw) ==
    IF fact_id \notin DOMAIN fs
    THEN fs
    ELSE [fs EXCEPT ![fact_id].valid_to = ParseTime(valid_to, nw),
                    ![fact_id].last_updated = nw]

\* decay_rate default 0.01 per day, as the divisor of days
decay_rate_div == 100

confidence_floor == 100

\* The new confidence apply_confidence_decay computes for an open fact above
\* the floor: max(0.1, confidence * (1 - decay_rate * days))
DecayedConfidence(fact, nw) ==
    LET days_milli == (nw - fact.valid_from) \div (one_day_ms \div 1000)
        decay_factor == 1000 - (days_milli \div decay_rate_div)
    IN  Max(confidence_floor, (fact.confidence * decay_factor) \div 1000)

\* TemporalGraph.apply_confidence_decay
apply_confidence_decay(fs, nw) ==
    [fid \in DOMAIN fs |->
        IF fs[fid].valid_to # Null \/ fs[fid].confidence <= confidence_floor
        THEN fs[fid]
        ELSE LET new_confidence == DecayedConfidence(fs[fid], nw)
             IN  IF new_confidence # fs[fid].confidence
                 THEN [fs[fid] EXCEPT !.confidence = new_confidence,
                                      !.last_updated = nw]
                 ELSE fs[fid]]

----------------------------------------------------------------------------
(* Waypoint graph: constants, bounds and inputs *)

\* Weights are in ten-thousandths: 1.0 is 10000
SIMILARITY_THRESHOLD == 7500
INITIAL_WEIGHT == 5000
REINFORCE_BOOST_W == 500
MAX_WEIGHT == 10000
MIN_WEIGHT == 500

\* expand: the weight of a seed (1.0), the default min_weight (0.1) and the
\* attenuation per hop (0.8, in tenths)
seed_weight == 10000
min_weight_default == 1000
hop_decay_tenths == 8

MaxWaypointOps == 2

\* max_expansion arguments of expand
MaxExpansionArgs == {0, 1, 2}

WNodes == {1, 2, 3}

\* weight arguments of create_waypoint: None (INITIAL_WEIGHT), 0.03 and 1.0
WeightArgs == {Null, 300, 10000}

\* path arguments of reinforce: the short paths, and the paths expand can return
PathArgs ==
    {<<>>, <<1>>} \cup {<<a, b>> : a, b \in WNodes}
    \cup {p \in {<<a, b, c>> : a, b, c \in WNodes} :
               p[1] # p[2] /\ p[2] # p[3] /\ p[1] # p[3]}

\* seed lists of expand: at most two ids, a repeated id included
SeedArgs == {<<>>} \cup {<<a>> : a \in WNodes} \cup {<<a, b>> : a, b \in WNodes}

----------------------------------------------------------------------------
(* Waypoint graph: operations *)

SeqToSet(seq) == {seq[i] : i \in 1..Len(seq)}

\* self._edges[src_id], or nothing when src_id is not a key
EdgesFrom(E, src_id) == IF src_id \in DOMAIN E THEN E[src_id] ELSE <<>>

\* dst_id in self._edges[src_id]
HasEdge(E, src_id, dst_id) ==
    /\ src_id \in DOMAIN E
    /\ \E i \in 1..Len(E[src_id]) : E[src_id][i].id = dst_id

\* self._edges[src_id][dst_id] = {"weight": weight, ...}: a key already in
\* the dict keeps its place, a new one goes last
SetEdge(E, src_id, dst_id, weight) ==
    LET old == EdgesFrom(E, src_id)
        inner == IF \E i \in 1..Len(old) : old[i].id = dst_id
                 THEN [i \in 1..Len(old) |->
                         IF old[i].id = dst_id
                         THEN [id |-> dst_id, weight |-> weight] ELSE old[i]]
                 ELSE Append(old, [id |-> dst_id, weight |-> weight])
    IN  [s \in DOMAIN E \cup {src_id} |-> IF s = src_id THEN inner ELSE E[s]]

\* WaypointGraph.create_waypoint
create_waypoint(E, src_id, dst_id, weight, bidirectional) ==
    IF src_id = dst_id
    THEN E
    ELSE LET w == IF weight = Null THEN INITIAL_WEIGHT ELSE weight
             forward == SetEdge(E, src_id, dst_id, w)
         IN  IF bidirectional THEN SetEdge(forward, dst_id, src_id, w) ELSE forward

\* list.sort(key=weight, reverse=True): stable, so equal weights keep their order
RECURSIVE SortByWeightDesc(_)
SortByWeightDesc(seq) ==
    IF seq = <<>>
    THEN <<>>
    ELSE LET n == Len(seq)
             sorted == SortByWeightDesc(SubSeq(seq, 1, n - 1))
             x == seq[n]
             k == Cardinality({i \in 1..Len(sorted) : sorted[i].weight >= x.weight})
         IN  SubSeq(sorted, 1, k) \o <<x>> \o SubSeq(sorted, k + 1, Len(sorted))

\* WaypointGraph.get_neighbors
get_neighbors(E, mem_id) ==
    IF mem_id \notin DOMAIN E THEN <<>> ELSE SortByWeightDesc(E[mem_id])

\* visited = set(seed_ids)
InitialVisited_Empty(seed_ids) == {}

InitialVisited(seed_ids) == SeqToSet(seed_ids)

\* A child that inherits the path's weight without the attenuation
ChildWeight_NoDecay(parent_weight, edge_weight) ==
    (parent_weight * edge_weight) \div 10000

\* The weight of a child: parent_weight * edge_weight * 0.8
ChildWeight(parent_weight, edge_weight) ==
    (parent_weight * edge_weight * hop_decay_tenths) \div (10000 * 10)

\* The for loop of expand over the neighbours of `current`, from the i-th on.
\* st is [queue, visited, expanded, count].
RECURSIVE VisitNeighbors(_, _, _, _, _, _)
VisitNeighbors(neighbors, i, current, st, max_expansion, min_weight) ==
    IF i > Len(neighbors)
    THEN st
    ELSE LET dst_id == neighbors[i].id
             new_weight == ChildWeight(current.weight, neighbors[i].weight)
             item == [id |-> dst_id, weight |-> new_weight,
                      path |-> Append(current.path, dst_id)]
             st2 == [queue |-> Append(st.queue, item),
                     visited |-> st.visited \cup {dst_id},
                     expanded |-> Append(st.expanded, item),
                     count |-> st.count + 1]
         IN  IF dst_id \in st.visited
             THEN VisitNeighbors(neighbors, i + 1, current, st, max_expansion, min_weight)
             ELSE IF new_weight < min_weight
             THEN VisitNeighbors(neighbors, i + 1, current, st, max_expansion, min_weight)
             ELSE IF st2.count >= max_expansion
             THEN st2
             ELSE VisitNeighbors(neighbors, i + 1, current, st2, max_expansion, min_weight)

\* A loop that reads the head of the queue and leaves it there
Popped_Kept(st) == st

\* current = queue.pop(0): the locals after the pop
Popped(st) == [st EXCEPT !.queue = Tail(st.queue)]

\* while queue and count < max_expansion
LoopCondition(st, max_expansion) == st.queue # <<>> /\ st.count < max_expansion

\* One iteration of the while loop of expand
ExpandIteration(E, st, max_expansion, min_weight) ==
    LET current == Head(st.queue)
    IN  VisitNeighbors(get_neighbors(E, current.id), 1, current, Popped(st),
                       max_expansion, min_weight)

\* The while loop of expand
RECURSIVE ExpandLoop(_, _, _, _)
ExpandLoop(E, st, max_expansion, min_weight) ==
    IF ~LoopCondition(st, max_expansion)
    THEN st
    ELSE ExpandLoop(E, ExpandIteration(E, st, max_expansion, min_weight),
                    max_expansion, min_weight)

\* The locals of expand before the loop
ExpandLocals(seed_ids) ==
    [queue |-> [i \in 1..Len(seed_ids) |->
                   [id |-> seed_ids[i], weight |-> seed_weight,
                    path |-> <<seed_ids[i]>>]],
     visited |-> InitialVisited(seed_ids),
     expanded |-> <<>>,
     count |-> 0]

\* WaypointGraph.expand: the list of [id, weight, path] returned
expand(E, seed_ids, max_expansion, min_weight) ==
    SortByWeightDesc(ExpandLoop(E, ExpandLocals(seed_ids), max_expansion,
                                min_weight).expanded)

\* The weight reinforce gives an edge
ReinforcedWeight_NoCap(weight) == weight + REINFORCE_BOOST_W

ReinforcedWeight(weight) == Min(MAX_WEIGHT, weight + REINFORCE_BOOST_W)

\* WaypointGraph.reinforce, from the i-th pair of the path on
RECURSIVE ReinforceFrom(_, _, _)
ReinforceFrom(E, path, i) ==
    IF i > Len(path) - 1
    THEN E
    ELSE LET src_id == path[i]
             dst_id == path[i + 1]
             E2 == IF HasEdge(E, src_id, dst_id)
                   THEN [E EXCEPT ![src_id] =
                           [k \in 1..Len(E[src_id]) |->
                              IF E[src_id][k].id = dst_id
                              THEN [E[src_id][k] EXCEPT
                                      !.weight = ReinforcedWeight(E[src_id][k].weight)]
                              ELSE E[src_id][k]]]
                   ELSE E
         IN  ReinforceFrom(E2, path, i + 1)

\* A reinforce that strengthens both directions of each pair
reinforce_path_AndBack(E, path) ==
    IF Len(path) < 2 THEN E
    ELSE ReinforceFrom(ReinforceFrom(E, path, 1),
                       [i \in 1..Len(path) |-> path[Len(path) + 1 - i]], 1)

\* WaypointGraph.reinforce
reinforce_path(E, path) == IF Len(path) < 2 THEN E ELSE ReinforceFrom(E, path, 1)

\* The incoming edges remove_memory deletes from the list of one source
WithoutIncoming_Kept(inner, mem_id) == inner

WithoutIncoming(inner, mem_id) == SelectSeq(inner, LAMBDA e : e.id # mem_id)

\* WaypointGraph.remove_memory
remove_memory(E, mem_id) ==
    [s \in DOMAIN E \ {mem_id} |-> WithoutIncoming(E[s], mem_id)]

\* WaypointGraph.prune_weak_edges: the graph after the call
prune_weak_edges(E, min_weight) ==
    LET mw == IF min_weight = Null THEN MIN_WEIGHT ELSE min_weight
        kept == [s \in DOMAIN E |-> SelectSeq(E[s], LAMBDA e : ~(e.weight < mw))]
    IN  [s \in {x \in DOMAIN E : kept[x] # <<>>} |-> kept[s]]

----------------------------------------------------------------------------
(* Sectors, decay and reinforcement: constants *)

\* The keys of SECTORS
SECTORS == {"episodic", "semantic", "procedural", "emotional", "reflective"}

\* The primary sector the patterns of classify_content give a content: the
\* contents of the model match no pattern, and the default is "semantic"
PatternSector(content) == "semantic"

\* classify_content(content, {"sector": sector}): the primary sector.  A
\* sector that is a key of SECTORS overrides the patterns; any other one is
\* passed over and the patterns decide.
classify_content(content, sector) ==
    IF sector \in SECTORS THEN sector ELSE PatternSector(content)

\* SECTORS[sector]["decay_lambda"], per day, in thousandths
decay_lambda(sector) ==
    CASE sector = "episodic" -> 15
      [] sector = "semantic" -> 5
      [] sector = "procedural" -> 8
      [] sector = "emotional" -> 20
      [] sector = "reflective" -> 1

\* get_sector_penalty, in thousandths
get_sector_penalty(query_sector, memory_sector) ==
    IF query_sector = memory_sector THEN 1000
    ELSE CASE query_sector = "semantic" /\ memory_sector = "procedural" -> 800
           [] query_sector = "semantic" /\ memory_sector = "episodic" -> 600
           [] query_sector = "semantic" /\ memory_sector = "reflective" -> 700
           [] query_sector = "semantic" /\ memory_sector = "emotional" -> 400
           [] query_sector = "procedural" /\ memory_sector = "semantic" -> 800
           [] query_sector = "procedural" /\ memory_sector = "episodic" -> 600
           [] query_sector = "procedural" /\ memory_sector = "reflective" -> 600
           [] query_sector = "procedural" /\ memory_sector = "emotional" -> 300
           [] query_sector = "episodic" /\ memory_sector = "reflective" -> 800
           [] query_sector = "episodic" /\ memory_sector = "semantic" -> 600
           [] query_sector = "episodic" /\ memory_sector = "procedural" -> 600
           [] query_sector = "episodic" /\ memory_sector = "emotional" -> 700
           [] query_sector = "reflective" /\ memory_sector = "episodic" -> 800
           [] query_sector = "reflective" /\ memory_sector = "semantic" -> 700
           [] query_sector = "reflective" /\ memory_sector = "procedural" -> 600
           [] query_sector = "reflective" /\ memory_sector = "emotional" -> 600
           [] query_sector = "emotional" /\ memory_sector = "episodic" -> 700
           [] query_sector = "emotional" /\ memory_sector = "reflective" -> 600
           [] query_sector = "emotional" /\ memory_sector = "semantic" -> 400
           [] query_sector = "emotional" /\ memory_sector = "procedural" -> 300
           [] OTHER -> 300

\* Salience and boost are in thousandths
REINFORCE_BOOST == 150
MIN_SALIENCE == 0
MAX_SALIENCE == 1000

\* the resistance term of calculate_decay (salience + 0.1) and the threshold
\* of apply_decay_to_memories (0.001)
salience_resistance == 100
significant_change == 1

----------------------------------------------------------------------------
(* Decay and reinforcement: operations *)

Abs(x) == IF x >= 0 THEN x ELSE 0 - x

\* math.exp(-x) for x >= 0 in thousandths, in thousandths: the reciprocal of
\* the Taylor polynomial 1 + x + x^2/2 + x^3/6 + x^4/24, which is 1 at 0,
\* below 1 elsewhere and decreasing, as exp(-x) is
ExpNeg(x) ==
    LET x2 == (x * x) \div 1000
        x3 == (x2 * x) \div 1000
        x4 == (x3 * x) \div 1000
    IN  1000000 \div (1000 + x + (x2 \div 2) + (x3 \div 6) + (x4 \div 24))

\* days = max(0, (now_ts - last_seen) / 86400000), in thousandths of a day
DaysSince(last_seen, now_ts) == Max(0, (now_ts - last_seen) \div (one_day_ms \div 1000))

\* calculate_decay raises ZeroDivisionError when salience + 0.1 is 0
DecayRaises(memory) == memory.salience + salience_resistance = 0

\* calculate_decay with the sector's decay rate.  A salience that is not
\* positive gives a product that is not positive, which the clamp turns to
\* MIN_SALIENCE.
calculate_decay(memory, now_ts) ==
    IF memory.salience <= 0
    THEN MIN_SALIENCE
    ELSE LET days == DaysSince(memory.last_seen_at, now_ts)
             x == (decay_lambda(memory.primary_sector) * days)
                     \div (memory.salience + salience_resistance)
         IN  Max(MIN_SALIENCE,
                 Min(MAX_SALIENCE, (memory.salience * ExpNeg(x)) \div 1000))

\* The body of the loop of apply_decay_to_memories for one memory
DecayedMemory(memory, now_ts) ==
    LET new_salience == calculate_decay(memory, now_ts)
    IN  IF Abs(new_salience - memory.salience) > significant_change
        THEN [memory EXCEPT !.salience = new_salience]
        ELSE memory

\* apply_decay_to_memories: the memories are visited in the order of the
\* dict, the order they were stored in; an exception leaves the memories
\* visited before it updated.  Gives [memories, updated, raised].
apply_decay_to_memories(mems, now_ts) ==
    LET raising == {id \in DOMAIN mems : DecayRaises(mems[id])}
        stop == IF raising = {} THEN Null
                ELSE CHOOSE id \in raising : \A o \in raising : id <= o
        visited == {id \in DOMAIN mems : stop = Null \/ id < stop}
    IN  [memories |-> [id \in DOMAIN mems |->
                          IF id \in visited
                          THEN DecayedMemory(mems[id], now_ts)
                          ELSE mems[id]],
         updated |-> {id \in visited :
                        DecayedMemory(mems[id], now_ts) # mems[id]},
         raised |-> stop # Null]

\* A reinforcement that stores the increment in place of the sum
ReinforcedSalience_Increment(salience, boost) ==
    Min(MAX_SALIENCE, (boost * (1000 - salience)) \div 1000)

\* The salience reinforce computes: min(MAX_SALIENCE, s + boost * (1 - s))
ReinforcedSalience(salience, boost) ==
    Min(MAX_SALIENCE, salience + (boost * (1000 - salience)) \div 1000)

\* decay.reinforce
reinforce(memory, boost, now_ts) ==
    LET b == IF boost = Null THEN REINFORCE_BOOST ELSE boost
    IN  [memory EXCEPT !.salience = ReinforcedSalience(memory.salience, b),
                       !.last_seen_at = now_ts,
                       !.coactivations = @ + 1]

----------------------------------------------------------------------------
(* Memory core: bounds and inputs *)

MaxCoreOps == 3
MaxMemories == 2
MaxSalienceOps == 4

default_user == "default"

\* user_id arguments: "" is an absent user_id
UserArgs == {"", "alice"}

\* The sector classify_content gives the query
QuerySectors == {"semantic"}

\* sector filters: "" is no filter
SectorFilters == {"", "semantic"}

\* tags filters of search and list: the empty set is an absent or empty list
TagArgs == {{}, {"work"}}

\* The arguments of add: the user_id, the content, the sector override and
\* the tags.  "mood" is a sector override that is no key of SECTORS.
StoreArgs ==
    {[user_id |-> "", content |-> "a", sector |-> "semantic", tags |-> {}],
     [user_id |-> "alice", content |-> "a", sector |-> "semantic", tags |-> {}],
     [user_id |-> "", content |-> "a", sector |-> "emotional", tags |-> {"work"}],
     [user_id |-> "", content |-> "a", sector |-> "mood", tags |-> {}]}

\* limit arguments of search and list, offset arguments of list
LimitArgs == {1, 10}
OffsetArgs == {0, 1}

\* boost arguments of reinforce_memory, in thousandths: absent, the ends of
\* the range the tool's schema declares (0.01 and 0.5), and -3.0, which the
\* schema excludes and no code rejects
BoostArgs == {Null, 10, 500, -3000}

\* top_k of the similarity search of _create_waypoints_for_memory, the
\* factor of top_k in search, the number of seeds of the expansion
waypoint_top_k == 5
search_top_k_factor == 3
max_seeds == 5

----------------------------------------------------------------------------
(* Memory core: operations *)

\* uid = user_id or self.default_user
Uid(user_id) == IF user_id = "" THEN default_user ELSE user_id

\* retriever.search(text, top_k): the ids of the top_k chunks of the video
\* nearest to the text, nearest first.  Which chunks are nearest is the
\* embedding backend's choice: any ranking of the chunks.
Rankings(chunks, top_k) ==
    LET n == Min(top_k, Cardinality(chunks))
    IN  {r \in [1..n -> chunks] : \A i, j \in 1..n : r[i] = r[j] => i = j}

\* A rebuild that appends the newest memory to the video
RebuiltIndex_Appended(mems, idx) ==
    IF DOMAIN mems = {} THEN idx
    ELSE idx \cup {CHOOSE id \in DOMAIN mems : \A o \in DOMAIN mems : o <= id}

\* _rebuild_video: the chunks of the video after the call; with no memory
\* it returns before building and the old video stays
RebuiltIndex(mems, idx) == IF DOMAIN mems = {} THEN idx ELSE DOMAIN mems

\* _create_waypoints_for_memory, from the i-th result on
RECURSIVE CreateWaypointsFrom(_, _, _, _, _)
CreateWaypointsFrom(E, mems, mem_id, results, i) ==
    IF i > Len(results)
    THEN E
    ELSE LET other_id == results[i]
             score == 10000 - (i - 1) * 1000
         IN  IF other_id = mem_id \/ other_id \notin DOMAIN mems
             THEN CreateWaypointsFrom(E, mems, mem_id, results, i + 1)
             ELSE IF score >= SIMILARITY_THRESHOLD
             THEN CreateWaypointsFrom(create_waypoint(E, mem_id, other_id, score, TRUE),
                                      mems, mem_id, results, i + 1)
             ELSE CreateWaypointsFrom(E, mems, mem_id, results, i + 1)

\* The record add stores
NewMemory(uid, content, sector, tags, now_ts) ==
    [user_id |-> uid, content |-> content, primary_sector |-> sector, tags |-> tags,
     salience |-> MAX_SALIENCE, last_seen_at |-> now_ts, coactivations |-> 0]

\* Scores are in units of 1 / (2 * 10^9), so that no product is rounded.
\* A direct hit: base_score * sector_penalty * (0.5 + salience * 0.5)
DirectScore(i, sector_penalty, salience) ==
    (1000 - (i - 1) * 50) * sector_penalty * (1000 + salience)

\* An expanded hit: weight * 0.5
ExpandedScore(weight) == weight * 100000

\* The first loop of search, from the i-th result on: the direct hits
\* tags and not any(t in mem.get("tags", []) for t in tags)
TagsFail(memory, tags) == tags # {} /\ memory.tags \cap tags = {}

RECURSIVE DirectMatches(_, _, _, _, _, _, _)
DirectMatches(mems, results, i, uid, sector, tags, query_sector) ==
    IF i > Len(results)
    THEN <<>>
    ELSE LET mem_id == results[i]
             rest == DirectMatches(mems, results, i + 1, uid, sector, tags,
                                   query_sector)
         IN  IF mem_id \notin DOMAIN mems THEN rest
             ELSE IF mems[mem_id].user_id # uid THEN rest
             ELSE IF sector # "" /\ mems[mem_id].primary_sector # sector THEN rest
             ELSE IF TagsFail(mems[mem_id], tags) THEN rest
             ELSE <<[id |-> mem_id,
                     score |-> DirectScore(i,
                                  get_sector_penalty(query_sector,
                                                     mems[mem_id].primary_sector),
                                  mems[mem_id].salience),
                     expanded_via |-> <<>>]>> \o rest

\* The tenant test of the expansion loop
SameTenant_Any(memory, uid) == TRUE

SameTenant(memory, uid) == memory.user_id = uid

\* The second loop of search, from the i-th expanded item on: the hits the
\* expansion adds to matches
RECURSIVE ExpandedMatches(_, _, _, _, _, _)
ExpandedMatches(mems, expanded, i, matched_ids, uid, sector) ==
    IF i > Len(expanded)
    THEN <<>>
    ELSE LET exp == expanded[i]
             skip == ExpandedMatches(mems, expanded, i + 1, matched_ids, uid, sector)
         IN  IF exp.id \in matched_ids THEN skip
             ELSE IF exp.id \notin DOMAIN mems THEN skip
             ELSE IF ~SameTenant(mems[exp.id], uid) THEN skip
             ELSE IF sector # "" /\ mems[exp.id].primary_sector # sector THEN skip
             ELSE <<[id |-> exp.id, score |-> ExpandedScore(exp.weight),
                     expanded_via |-> exp.path]>>
                  \o ExpandedMatches(mems, expanded, i + 1,
                                     matched_ids \cup {exp.id}, uid, sector)

\* matches.sort(key=score, reverse=True): stable
RECURSIVE SortByScoreDesc(_)
SortByScoreDesc(seq) ==
    IF seq = <<>>
    THEN <<>>
    ELSE LET n == Len(seq)
             sorted == SortByScoreDesc(SubSeq(seq, 1, n - 1))
             x == seq[n]
             k == Cardinality({i \in 1..Len(sorted) : sorted[i].score >= x.score})
         IN  SubSeq(sorted, 1, k) \o <<x>> \o SubSeq(sorted, k + 1, Len(sorted))

\* matches[:limit]
Truncate(seq, limit) == SubSeq(seq, 1, Min(limit, Len(seq)))

\* The list search returns, before it reinforces: top_results
TopResults(mems, E, results, uid, limit, sector, tags, query_sector, expand_waypoints) ==
    LET direct == DirectMatches(mems, results, 1, uid, sector, tags, query_sector)
        seed_ids == [i \in 1..Min(max_seeds, Len(direct)) |-> direct[i].id]
        matches ==
            IF expand_waypoints /\ direct # <<>>
            THEN direct \o ExpandedMatches(mems,
                              expand(E, seed_ids, limit, min_weight_default), 1,
                              {direct[i].id : i \in 1..Len(direct)}, uid, sector)
            ELSE direct
    IN  Truncate(SortByScoreDesc(matches), limit)

\* A search that reinforces every memory of the core
ReinforcedMemories_All(mems, top_results, i, now_ts) ==
    [id \in DOMAIN mems |-> reinforce(mems[id], Null, now_ts)]

\* The last loop of search, from the i-th result on: the memories after
\* reinforce(mem)
RECURSIVE ReinforcedMemories(_, _, _, _)
ReinforcedMemories(mems, top_results, i, now_ts) ==
    IF i > Len(top_results)
    THEN mems
    ELSE LET id == top_results[i].id
         IN  IF id \in DOMAIN mems
             THEN ReinforcedMemories([mems EXCEPT ![id] = reinforce(mems[id], Null, now_ts)],
                                     top_results, i + 1, now_ts)
             ELSE ReinforcedMemories(mems, top_results, i + 1, now_ts)

\* The last loop of search, from the i-th result on: the graph after
\* self._waypoints.reinforce(result["expanded_via"])
RECURSIVE ReinforcedPaths(_, _, _, _)
ReinforcedPaths(E, mems, top_results, i) ==
    IF i > Len(top_results)
    THEN E
    ELSE IF top_results[i].id \in DOMAIN mems /\ top_results[i].expanded_via # <<>>
    THEN ReinforcedPaths(reinforce_path(E, top_results[i].expanded_via),
                         mems, top_results, i + 1)
    ELSE ReinforcedPaths(E, mems, top_results, i + 1)

\* The ids of a list of results
Ids(results) == [i \in 1..Len(results) |-> results[i].id]

\* The scores of a list of results
Scores(results) == [i \in 1..Len(results) |-> results[i].score]

\* The expanded_via of a list of results: the empty path for a direct hit
Paths(results) == [i \in 1..Len(results) |-> results[i].expanded_via]

\* The memories a delete keeps
Without(mems, ids) == [id \in DOMAIN mems \ ids |-> mems[id]]

\* A delete_all that leaves the waypoint graph alone
RemoveAll_None(E, ids) == E

\* delete_all: self._waypoints.remove_memory(mid) for each id, in the order
\* of the dict
RECURSIVE RemoveAll(_, _)
RemoveAll(E, ids) ==
    IF ids = {}
    THEN E
    ELSE LET mid == CHOOSE id \in ids : \A o \in ids : id <= o
         IN  RemoveAll(remove_memory(E, mid), ids \ {mid})

\* The sort key of list_memories, in units of 1 / (3 * 10^7):
\* salience * (1 - (now - last_seen_at) / 86400000 / 30)
ListKey(memory, now_ts) ==
    memory.salience * (30000 - ((now_ts - memory.last_seen_at) \div (one_day_ms \div 1000)))

\* memories.sort(key=..., reverse=True) of list_memories: stable, over the ids
\* in the order of the dict
RECURSIVE SortByListKey(_, _, _)
SortByListKey(mems, ids, now_ts) ==
    IF ids = <<>>
    THEN <<>>
    ELSE LET n == Len(ids)
             sorted == SortByListKey(mems, SubSeq(ids, 1, n - 1), now_ts)
             x == ids[n]
             k == Cardinality({i \in 1..Len(sorted) :
                     ListKey(mems[sorted[i]], now_ts) >= ListKey(mems[x], now_ts)})
         IN  SubSeq(sorted, 1, k) \o <<x>> \o SubSeq(sorted, k + 1, Len(sorted))

\* The ids of a set in increasing order: the order of the dict
RECURSIVE InOrder(_)
InOrder(ids) ==
    IF ids = {}
    THEN <<>>
    ELSE LET hi == CHOOSE id \in ids : \A o \in ids : id >= o
         IN  Append(InOrder(ids \ {hi}), hi)

\* list_memories: the ids of the memories returned
list_memories(mems, uid, limit, offset, tags, sector, now_ts) ==
    LET kept == {id \in DOMAIN mems :
                    /\ mems[id].user_id = uid
                    /\ ~TagsFail(mems[id], tags)
                    /\ (sector = "" \/ mems[id].primary_sector = sector)}
        sorted == SortByListKey(mems, InOrder(kept), now_ts)
    IN  SubSeq(sorted, Min(offset, Len(sorted)) + 1, Min(offset + limit, Len(sorted)))

----------------------------------------------------------------------------
(* Scope router: constants, bounds and inputs *)

\* Confidence and similarity are in thousandths
CONFIDENCE_THRESHOLD == 650
DEDUP_THRESHOLD == 900

\* PROJECT_BOOST (1.2), in tenths
PROJECT_BOOST_TENTHS == 12

MaxRouterOps == 3

\* The two scopes, project first: the order the manager asks the cores in
Scopes == {"project", "user"}

\* self.project_memory and self.user_memory after construction
EmptyCore ==
    [memories |-> <<>>, edges |-> <<>>, index |-> {}, facts |-> <<>>,
     disk |-> [memory_meta |-> <<>>, waypoints |-> <<>>, temporal_facts |-> <<>>]]

\* _save_metadata, WaypointGraph._save and TemporalGraph._save: json.dump of
\* the in-memory document over the file.  The documents hold strings,
\* numbers, lists, dicts and None only, which json.load gives back as they
\* were, so a file is modelled by the document last written to it.
save_metadata(core) == [core EXCEPT !.disk.memory_meta = core.memories]
save_waypoints(core) == [core EXCEPT !.disk.waypoints = core.edges]
save_facts(core) == [core EXCEPT !.disk.temporal_facts = core.facts]

\* A core opened from the directory of another: _load_metadata and the two
\* _load read the three documents
reopened(core) ==
    [core EXCEPT !.memories = core.disk.memory_meta,
                 !.edges = core.disk.waypoints,
                 !.facts = core.disk.temporal_facts]

\* scope arguments of store: the three the tool's schema lists, and one it
\* does not list, which no code rejects
ScopeArgs == {"auto", "project", "user", "team"}

\* metadata["scope"] of store: "" is a metadata without the key
MetadataScopes == {"", "project", "user"}

\* round(n / d, 0) for d # 0: the nearest integer (halves go up)
RoundDiv(n, d) ==
    IF d > 0 THEN (2 * n + d) \div (2 * d)
    ELSE (2 * (0 - n) + (0 - d)) \div (2 * (0 - d))

\* The second part of ScopeClassifier.classify: the scope and the confidence
\* (rounded to 3 places) from the mean similarities to the two groups of
\* examples, in thousandths
semantic_classify(project_score, user_score) ==
    LET total == project_score + user_score
    IN  IF total = 0
        THEN [scope |-> "user", confidence |-> 500]
        ELSE IF project_score > user_score
        THEN [scope |-> "project",
              confidence |-> RoundDiv(1000 * project_score, total)]
        ELSE [scope |-> "user",
              confidence |-> RoundDiv(1000 * user_score, total)]

\* The mean similarities of the contents stored through the manager: clearly
\* project, at and just below the confidence threshold, clearly user, even
ScorePairs ==
    {[project_score |-> 900, user_score |-> 100],
     [project_score |-> 650, user_score |-> 350],
     [project_score |-> 649, user_score |-> 351],
     [project_score |-> 200, user_score |-> 800],
     [project_score |-> 500, user_score |-> 500]}

\* The mean similarities classify is checked on: cosine similarities lie in
\* [-1, 1]
ScoreArgs == {-1000, -500, -200, -100, 0, 100, 200, 500, 900, 1000}

\* What the semantic part of ScopeClassifier.classify gives the contents
\* stored through the manager
SemanticResults ==
    {semantic_classify(sp.project_score, sp.user_score) : sp \in ScorePairs}

\* valid_from arguments of store_fact through the manager: None (now), an
\* instant in the past and a string that is no ISO timestamp
FactTimeArgs == {Null, Day(1), BadIso}

\* predicate arguments of get_timeline: "" is an absent predicate
PredicateFilters == {"", "works_at"}

\* scope arguments of list: "" is an absent scope
ScopeFilters == {"", "project", "user"}

\* The contents stored through the manager
Contents == {"a", "b", "c"}

\* The arguments of store that decide the scope.  The comparison with the
\* exemplars is only made for scope "auto" with no scope in the metadata.
RouteArgs ==
    {r \in [scope : ScopeArgs, metadata_scope : MetadataScopes,
            semantic : SemanticResults] :
        (r.scope # "auto" \/ r.metadata_scope # "") =>
            r.semantic = [scope |-> "project", confidence |-> 900]}

\* np.dot of the unit-norm embeddings of two contents, in thousandths: "a"
\* and "b" are near-duplicates, as are "b" and "c"; "a" and "c" are not
Dot(c1, c2) ==
    IF c1 = c2 THEN 1000
    ELSE IF {c1, c2} = {"a", "b"} THEN 950
    ELSE IF {c1, c2} = {"b", "c"} THEN 920
    ELSE 500

----------------------------------------------------------------------------
(* Scope router: operations *)

\* ScopeClassifier.classify
classify(semantic, metadata_scope) ==
    IF metadata_scope \in {"project", "user"}
    THEN [scope |-> metadata_scope, confidence |-> 1000, warning |-> FALSE]
    ELSE [scope |-> semantic.scope, confidence |-> semantic.confidence,
          warning |-> FALSE]

\* classification["confidence"] < self.CONFIDENCE_THRESHOLD
LowConfidence_Inclusive(confidence) == confidence <= CONFIDENCE_THRESHOLD

LowConfidence(confidence) == confidence < CONFIDENCE_THRESHOLD

\* The first part of DualMemoryManager.store: [target_scope, classification]
Route(scope, semantic, metadata_scope) ==
    IF scope = "auto"
    THEN LET classification == classify(semantic, metadata_scope)
         IN  IF LowConfidence(classification.confidence)
             THEN [target_scope |-> "user",
                   classification |-> [classification EXCEPT !.warning = TRUE]]
             ELSE [target_scope |-> classification.scope,
                   classification |-> classification]
    ELSE [target_scope |-> scope,
          classification |-> [scope |-> scope, confidence |-> 1000,
                              warning |-> FALSE]]

\* The core DualMemoryManager.store adds to
HoldingScope(target_scope) == IF target_scope = "project" THEN "project" ELSE "user"

\* limit arguments of recall
RecallLimits == {1, 2}

\* fetch_limit = int(limit * 1.5)
FetchLimit(limit) == (limit * 3) \div 2

\* Scores of the manager are in units of 1 / (2 * 10^8): a core's score is a
\* multiple of 100 of its own unit, so the division loses nothing.
\* r["score"] * self.PROJECT_BOOST for a project result
BoostedScore_None(core_score) == (core_score \div 100) * 10

BoostedScore(core_score) == (core_score \div 100) * PROJECT_BOOST_TENTHS

\* The score of a user result, left as the core gave it
UserScore(core_score) == (core_score \div 100) * 10

\* The results of one core's search as recall tags them
Tagged(top_results, mems, scope) ==
    [i \in 1..Len(top_results) |->
        [id |-> top_results[i].id,
         scope |-> scope,
         content |-> mems[top_results[i].id].content,
         core_score |-> top_results[i].score,
         score |-> IF scope = "project" THEN BoostedScore(top_results[i].score)
                   ELSE UserScore(top_results[i].score)]]

\* The loop of _deduplicate from the i-th result on, with the results kept
\* so far
RECURSIVE DedupFrom(_, _, _)
DedupFrom(results, i, kept) ==
    IF i > Len(results)
    THEN kept
    ELSE IF \E k \in 1..Len(kept) :
               Dot(results[i].content, kept[k].content) >= DEDUP_THRESHOLD
    THEN DedupFrom(results, i + 1, kept)
    ELSE DedupFrom(results, i + 1, Append(kept, results[i]))

\* DualMemoryManager._deduplicate
deduplicate(results) == IF Len(results) <= 1 THEN results ELSE DedupFrom(results, 1, <<>>)

\* The end of recall: merge, deduplicate, sort and cut
merge_results(project_results, user_results, limit) ==
    LET all_results == project_results \o user_results
    IN  IF Len(all_results) <= 1
        THEN Truncate(all_results, limit)
        ELSE Truncate(SortByScoreDesc(deduplicate(all_results)), limit)

\* MemvidMemory.search on the state of one core, given the ranking of the
\* backend: the state after the call and the list returned
search_core(core, results, uid, limit, sector, tags, query_sector, expand_waypoints, now_ts) ==
    IF core.index = {}
    THEN [core |-> core, top_results |-> <<>>]
    ELSE LET top_results == TopResults(core.memories, core.edges, results, uid, limit,
                                       sector, tags, query_sector, expand_waypoints)
             searched == [core EXCEPT
                            !.memories = ReinforcedMemories(core.memories,
                                                            top_results, 1, now_ts),
                            !.edges = ReinforcedPaths(core.edges, core.memories,
                                                      top_results, 1)]
             paths == \E i \in 1..Len(top_results) :
                         /\ top_results[i].id \in DOMAIN core.memories
                         /\ top_results[i].expanded_via # <<>>
         IN  [core |-> save_metadata(IF paths THEN save_waypoints(searched)
                                     ELSE searched),
              top_results |-> top_results]

\* facts.sort(key=valid_from) of get_timeline: stable, over fact ids
RECURSIVE SortByValidFrom(_, _)
SortByValidFrom(fs, ids) ==
    IF ids = <<>>
    THEN <<>>
    ELSE LET n == Len(ids)
             sorted == SortByValidFrom(fs, SubSeq(ids, 1, n - 1))
             x == ids[n]
             k == Cardinality({i \in 1..Len(sorted) :
                     fs[sorted[i]].valid_from <= fs[x].valid_from})
         IN  SubSeq(sorted, 1, k) \o <<x>> \o SubSeq(sorted, k + 1, Len(sorted))

\* TemporalGraph.get_timeline: the ids of the facts returned; "" is an
\* absent predicate
get_timeline(fs, subject, predicate) ==
    SortByValidFrom(fs, InOrder({fid \in DOMAIN fs :
                                    /\ fs[fid].subject = subject
                                    /\ (predicate = "" \/ fs[fid].predicate = predicate)}))

\* The facts of one core's timeline as DualMemoryManager.get_timeline tags them
TaggedFacts(fs, ids, scope) ==
    [i \in 1..Len(ids) |->
        [id |-> ids[i], scope |-> scope, valid_from |-> fs[ids[i]].valid_from]]

\* DualMemoryManager.get_timeline
router_get_timeline(S, subject, predicate) ==
    TaggedFacts(S["project"].facts,
                get_timeline(S["project"].facts, subject, predicate), "project")
    \o TaggedFacts(S["user"].facts,
                   get_timeline(S["user"].facts, subject, predicate), "user")

\* result["scope"] = scope, m["scope"] = scope: the dict is the one the core
\* keeps in _memories (MemvidMemory.get and list_memories return the stored
\* dicts, not copies), so the stored record gets the key
WithScope(memory, scope) == [scope |-> scope] @@ memory

\* A core after the manager has tagged the memories ids that the core
\* returned
TagMemories(core, ids, scope) ==
    [core EXCEPT !.memories =
        [id \in DOMAIN core.memories |->
            IF id \in SeqToSet(ids)
            THEN WithScope(core.memories[id], scope)
            ELSE core.memories[id]]]

\* The memories of one core's list as DualMemoryManager.list_memories tags
\* them
TaggedIds(ids, scope) == [i \in 1..Len(ids) |-> [id |-> ids[i], scope |-> scope]]

\* DualMemoryManager.list_memories: "" is an absent scope
router_list_memories(S, uid, limit, offset, tags, sector, scope, now_ts) ==
    LET project_part ==
            IF scope \in {"", "project"}
            THEN TaggedIds(list_memories(S["project"].memories, uid, limit, offset,
                                         tags, sector, now_ts), "project")
            ELSE <<>>
        user_part ==
            IF scope \in {"", "user"}
            THEN TaggedIds(list_memories(S["user"].memories, uid, limit, offset,
                                         tags, sector, now_ts), "user")
            ELSE <<>>
    IN  Truncate(project_part \o user_part, limit)

\* DualMemoryManager.list_memories: the cores after the call
router_list_stores(S, uid, limit, offset, tags, sector, scope, now_ts) ==
    [sc \in Scopes |->
        IF scope \in {"", sc}
        THEN TagMemories(S[sc],
                         list_memories(S[sc].memories, uid, limit, offset, tags,
                                       sector, now_ts),
                         sc)
        ELSE S[sc]]

\* DualMemoryManager.get: the scope it reports, or "none" for a None result
router_get(S, memory_id, uid) ==
    IF /\ memory_id \in DOMAIN S["project"].memories
       /\ S["project"].memories[memory_id].user_id = uid
    THEN "project"
    ELSE IF /\ memory_id \in DOMAIN S["user"].memories
            /\ S["user"].memories[memory_id].user_id = uid
    THEN "user"
    ELSE "none"

\* DualMemoryManager.get: the cores after the call
router_get_stores(S, memory_id, uid) ==
    LET held == router_get(S, memory_id, uid)
    IN  IF held = "none"
        THEN S
        ELSE [S EXCEPT ![held] = TagMemories(@, <<memory_id>>, held)]

----------------------------------------------------------------------------
(* Temporal knowledge graph: the state machine *)

Init ==
    /\ now = 1
    /\ facts = <<>>
    /\ nextFact = 1
    /\ invalidated = {}
    /\ decays = 0
    /\ edges = <<>>
    /\ wops = 0
    /\ lastW = [op |-> "init"]
    /\ memories = <<>>
    /\ index = {}
    /\ nextId = 1
    /\ cops = 0
    /\ last = [op |-> "init"]
    /\ deletedIds = {}
    /\ abortedIds = {}
    /\ stores = [scope \in Scopes |-> EmptyCore]
    /\ rops = 0
    /\ lastR = [op |-> "init"]
    /\ manager = "none"
    /\ suspended = {}
    /\ lastS = [name |-> "", outcome |-> "none"]
    /\ xp = [pc |-> "idle"]

Clock == ClockSeq[now]

TTick ==
    /\ now < Len(ClockSeq)
    /\ now' = now + 1
    /\ UNCHANGED <<facts, nextFact, invalidated, decays, wvars, cvars, rvars, svars, xp>>

InsertFact ==
    /\ nextFact <= MaxFacts
    /\ \E s \in Subjects, p \in Predicates, o \in Objects,
          vf \in TimeArgs, c \in ConfidenceArgs :
          facts' = insert_fact(facts, nextFact, s, p, o, vf, c, Clock)
    /\ nextFact' = nextFact + 1
    /\ UNCHANGED <<now, invalidated, decays, wvars, cvars, rvars, svars, xp>>

InvalidateFact ==
    /\ Cardinality(invalidated) < MaxInvalidations
    /\ \E fid \in 1..MaxFacts, vt \in TimeArgs :
          /\ facts' = invalidate_fact(facts, fid, vt, Clock)
          /\ invalidated' = IF fid \in DOMAIN facts
                            THEN invalidated \cup {fid} ELSE invalidated
    /\ UNCHANGED <<now, nextFact, decays, wvars, cvars, rvars, svars, xp>>

ApplyConfidenceDecay ==
    /\ decays < MaxDecays
    /\ facts' = apply_confidence_decay(facts, Clock)
    /\ decays' = decays + 1
    /\ UNCHANGED <<now, nextFact, invalidated, wvars, cvars, rvars, svars, xp>>

\* insert_fact and invalidate_fact, as the clock advances
TNext == TTick \/ InsertFact \/ InvalidateFact

SpecTemporal == Init /\ [][TNext]_tvars

\* insert_fact and apply_confidence_decay, as the clock advances
CNext == TTick \/ InsertFact \/ ApplyConfidenceDecay

SpecConfidence == Init /\ [][CNext]_tvars

----------------------------------------------------------------------------
(* Waypoint graph: the state machine *)

NoteW(op) == lastW' = [op |-> op]

CreateWaypoint ==
    /\ wops < MaxWaypointOps
    /\ \E src \in WNodes, dst \in WNodes, w \in WeightArgs, b \in BOOLEAN :
          edges' = create_waypoint(edges, src, dst, w, b)
    /\ wops' = wops + 1
    /\ NoteW("create_waypoint")
    /\ UNCHANGED <<tvars, cvars, rvars, svars, xp>>

ReinforcePath ==
    /\ wops < MaxWaypointOps
    /\ \E path \in PathArgs :
          /\ edges' = reinforce_path(edges, path)
          /\ lastW' = [op |-> "reinforce", path |-> path]
    /\ wops' = wops + 1
    /\ UNCHANGED <<tvars, cvars, rvars, svars, xp>>

RemoveMemory ==
    /\ wops < MaxWaypointOps
    /\ \E m \in WNodes : edges' = remove_memory(edges, m)
    /\ wops' = wops + 1
    /\ NoteW("remove_memory")
    /\ UNCHANGED <<tvars, cvars, rvars, svars, xp>>

PruneWeakEdges ==
    /\ wops < MaxWaypointOps
    /\ edges' = prune_weak_edges(edges, Null)
    /\ wops' = wops + 1
    /\ NoteW("prune_weak_edges")
    /\ UNCHANGED <<tvars, cvars, rvars, svars, xp>>

Expand ==
    /\ \E seeds \in SeedArgs, mx \in MaxExpansionArgs :
          lastW' = [op |-> "expand", seed_ids |-> seeds, max_expansion |-> mx,
                    result |-> expand(edges, seeds, mx, min_weight_default)]
    /\ UNCHANGED <<edges, wops>>
    /\ UNCHANGED <<tvars, cvars, rvars, svars, xp>>

\* expand changes no edge: a call that follows another call of expand sees
\* the graph the first one saw, and every call is made on every graph
WNext ==
    \/ CreateWaypoint
    \/ ReinforcePath
    \/ RemoveMemory
    \/ PruneWeakEdges
    \/ lastW.op # "expand" /\ Expand

SpecWaypoint == Init /\ [][WNext]_wvars

----------------------------------------------------------------------------
(* Waypoint graph: expand, one loop iteration at a time *)

\* seed lists: none, one, two, and a repeated seed
ExpandSeedArgs == {<<>>, <<1>>, <<1, 2>>, <<1, 1>>}

\* max_expansion arguments: a negative one, one that cuts the expansion, and
\* one larger than any graph here
ExpandLimitArgs == {-1, 1, 9}

\* min_weight arguments: no pruning, and the default 0.1
MinWeightArgs == {0, 1000}

\* expand is entered: the locals are set up
ExpandStart ==
    /\ xp.pc = "idle"
    /\ \E seed_ids \in ExpandSeedArgs, max_expansion \in ExpandLimitArgs,
          min_weight \in MinWeightArgs :
          xp' = [pc |-> "loop", seed_ids |-> seed_ids,
                 max_expansion |-> max_expansion, min_weight |-> min_weight,
                 st |-> ExpandLocals(seed_ids), iterations |-> 0]
    /\ UNCHANGED <<wvars, tvars, cvars, rvars, svars>>

\* One iteration of the while loop
ExpandStep ==
    /\ xp.pc = "loop"
    /\ LoopCondition(xp.st, xp.max_expansion)
    /\ xp' = [xp EXCEPT !.st = ExpandIteration(edges, xp.st, xp.max_expansion,
                                               xp.min_weight),
                        !.iterations = @ + 1]
    /\ UNCHANGED <<wvars, tvars, cvars, rvars, svars>>

\* The loop is left: expanded is sorted and returned
ExpandReturn ==
    /\ xp.pc = "loop"
    /\ ~LoopCondition(xp.st, xp.max_expansion)
    /\ lastW' = [op |-> "expand", seed_ids |-> xp.seed_ids,
                 max_expansion |-> xp.max_expansion,
                 min_weight |-> xp.min_weight,
                 result |-> SortByWeightDesc(xp.st.expanded)]
    /\ xp' = [pc |-> "idle"]
    /\ UNCHANGED <<edges, wops, tvars, cvars, rvars, svars>>

\* Graphs are built between the calls of expand: the call is synchronous.
\* expand changes nothing, so a second call in a row would see the graph the
\* first one saw: one call is made per graph call.
ExpandNext ==
    \/ xp.pc = "idle" /\ CreateWaypoint
    \/ lastW.op # "expand" /\ ExpandStart
    \/ ExpandStep
    \/ ExpandReturn

SpecExpand == Init /\ [][ExpandNext]_vars

----------------------------------------------------------------------------
(* Memory core: the state machine *)

\* What a call on the core leaves alone in the other components
CoreFrame == UNCHANGED <<now, nextFact, invalidated, decays, wops, lastW, rvars, svars, xp>>

\* MemvidMemory.add
Add ==
    /\ nextId <= MaxMemories
    /\ \E arg \in StoreArgs :
          LET mem_id == nextId
              user_id == arg.user_id
              mems == [id \in DOMAIN memories \cup {mem_id} |->
                          IF id = mem_id
                          THEN NewMemory(Uid(user_id), arg.content,
                                         classify_content(arg.content, arg.sector),
                                         arg.tags, Clock)
                          ELSE memories[id]]
              idx == RebuiltIndex(mems, index)
          IN  /\ memories' = mems
              /\ index' = idx
              /\ \E results \in Rankings(idx, waypoint_top_k) :
                    edges' = CreateWaypointsFrom(edges, mems, mem_id, results, 1)
              /\ last' = [op |-> "add", uid |-> Uid(user_id), id |-> mem_id,
                          sector |-> arg.sector, raised |-> FALSE]
    /\ nextId' = nextId + 1
    /\ cops' = cops + 1
    /\ UNCHANGED <<facts, deletedIds, abortedIds>>
    /\ CoreFrame

\* MemvidMemory.add when _rebuild_video raises: the exception leaves add
\* after the metadata write.  The memory is in _memories and in the file, no
\* waypoint is created, and the video is the old one or the new one, as far
\* as the encoder came.
AddAborted ==
    /\ nextId <= MaxMemories
    /\ \E arg \in StoreArgs :
          LET mem_id == nextId
              user_id == arg.user_id
              mems == [id \in DOMAIN memories \cup {mem_id} |->
                          IF id = mem_id
                          THEN NewMemory(Uid(user_id), arg.content,
                                         classify_content(arg.content, arg.sector),
                                         arg.tags, Clock)
                          ELSE memories[id]]
          IN  /\ memories' = mems
              /\ index' \in {index, RebuiltIndex(mems, index)}
              /\ abortedIds' = abortedIds \cup {mem_id}
              /\ last' = [op |-> "add", uid |-> Uid(user_id), id |-> mem_id,
                          sector |-> arg.sector, raised |-> TRUE]
    /\ nextId' = nextId + 1
    /\ cops' = cops + 1
    /\ UNCHANGED <<facts, edges, deletedIds>>
    /\ CoreFrame

\* MemvidMemory.search.  With no video there is no retriever and the search
\* returns an empty list.
Search ==
    /\ \E user_id \in UserArgs, limit \in LimitArgs, sector \in SectorFilters,
          tags \in TagArgs, query_sector \in QuerySectors,
          expand_waypoints \in BOOLEAN :
          IF index = {}
          THEN /\ last' = [op |-> "search", uid |-> Uid(user_id), ids |-> <<>>, paths |-> <<>>, scores |-> <<>>,
                           sector |-> sector, tags |-> tags,
                           expand_waypoints |-> expand_waypoints,
                           backend |-> "missing", raised |-> FALSE]
               /\ UNCHANGED <<memories, edges>>
          ELSE \E results \in Rankings(index, limit * search_top_k_factor) :
                  \E top_results \in {TopResults(memories, edges, results,
                                                  Uid(user_id), limit, sector, tags,
                                                  query_sector, expand_waypoints)} :
                      /\ memories' = ReinforcedMemories(memories, top_results, 1, Clock)
                      /\ edges' = ReinforcedPaths(edges, memories, top_results, 1)
                      /\ last' = [op |-> "search", uid |-> Uid(user_id),
                                  ids |-> Ids(top_results),
                                  paths |-> Paths(top_results),
                                  scores |-> Scores(top_results),
                                  sector |-> sector, tags |-> tags,
                                  expand_waypoints |-> expand_waypoints,
                                  backend |-> "ok", raised |-> FALSE]
    /\ cops' = cops + 1
    /\ UNCHANGED <<facts, index, nextId, deletedIds, abortedIds>>
    /\ CoreFrame

\* MemvidMemory.search when retriever.search raises: the exception is not
\* caught and leaves search before anything is written
SearchFailed ==
    /\ index # {}
    /\ \E user_id \in UserArgs, limit \in LimitArgs, sector \in SectorFilters,
          tags \in TagArgs, expand_waypoints \in BOOLEAN :
          last' = [op |-> "search", uid |-> Uid(user_id), ids |-> <<>>, paths |-> <<>>, scores |-> <<>>,
                   sector |-> sector, tags |-> tags,
                   expand_waypoints |-> expand_waypoints,
                   backend |-> "failing", raised |-> TRUE]
    /\ cops' = cops + 1
    /\ UNCHANGED <<facts, edges, memories, index, nextId, deletedIds, abortedIds>>
    /\ CoreFrame

\* MemvidMemory.get
Get ==
    /\ \E memory_id \in 1..(nextId - 1), user_id \in UserArgs :
          last' = [op |-> "get", uid |-> Uid(user_id),
                   ids |-> IF /\ memory_id \in DOMAIN memories
                              /\ memories[memory_id].user_id = Uid(user_id)
                           THEN <<memory_id>> ELSE <<>>]
    /\ cops' = cops + 1
    /\ UNCHANGED <<facts, edges, memories, index, nextId, deletedIds, abortedIds>>
    /\ CoreFrame

\* MemvidMemory.list_memories
ListMemories ==
    /\ \E user_id \in UserArgs, limit \in LimitArgs, offset \in OffsetArgs,
          tags \in TagArgs, sector \in SectorFilters :
          last' = [op |-> "list", uid |-> Uid(user_id), limit |-> limit,
                   offset |-> offset, tags |-> tags, sector |-> sector,
                   now_ts |-> Clock,
                   ids |-> list_memories(memories, Uid(user_id), limit, offset,
                                         tags, sector, Clock)]
    /\ cops' = cops + 1
    /\ UNCHANGED <<facts, edges, memories, index, nextId, deletedIds, abortedIds>>
    /\ CoreFrame

\* Whether an edge of the graph starts or ends at one of the ids
Incident(E, ids) ==
    \E s \in DOMAIN E : \E i \in 1..Len(E[s]) : s \in ids \/ E[s][i].id \in ids

\* MemvidMemory.delete
Delete ==
    /\ \E memory_id \in 1..(nextId - 1), user_id \in UserArgs :
          IF /\ memory_id \in DOMAIN memories
             /\ memories[memory_id].user_id = Uid(user_id)
          THEN /\ memories' = Without(memories, {memory_id})
               /\ edges' = remove_memory(edges, memory_id)
               /\ index' = RebuiltIndex(Without(memories, {memory_id}), index)
               /\ deletedIds' = deletedIds \cup {memory_id}
               /\ last' = [op |-> "delete", uid |-> Uid(user_id),
                           deleted |-> {memory_id},
                           had_edges |-> Incident(edges, {memory_id})]
          ELSE /\ last' = [op |-> "delete", uid |-> Uid(user_id),
                           deleted |-> {}, had_edges |-> FALSE]
               /\ UNCHANGED <<memories, edges, index, deletedIds>>
    /\ cops' = cops + 1
    /\ UNCHANGED <<facts, nextId, abortedIds>>
    /\ CoreFrame

\* MemvidMemory.delete_all
DeleteAll ==
    /\ \E user_id \in UserArgs :
          LET to_delete == {mid \in DOMAIN memories :
                               memories[mid].user_id = Uid(user_id)}
          IN  /\ memories' = Without(memories, to_delete)
              /\ edges' = RemoveAll(edges, to_delete)
              /\ index' = IF to_delete # {}
                          THEN RebuiltIndex(Without(memories, to_delete), index)
                          ELSE index
              /\ deletedIds' = deletedIds \cup to_delete
              /\ last' = [op |-> "delete_all", uid |-> Uid(user_id),
                          deleted |-> to_delete,
                          had_edges |-> Incident(edges, to_delete)]
    /\ cops' = cops + 1
    /\ UNCHANGED <<facts, nextId, abortedIds>>
    /\ CoreFrame

\* MemvidMemory.reinforce_memory.  The call carries no user_id: it is a call
\* for the default tenant.
ReinforceMemory ==
    /\ \E memory_id \in 1..(nextId - 1), boost \in BoostArgs :
          /\ memories' = IF memory_id \in DOMAIN memories
                         THEN [memories EXCEPT
                                 ![memory_id] = reinforce(memories[memory_id],
                                                          boost, Clock)]
                         ELSE memories
          /\ last' = [op |-> "reinforce", uid |-> default_user, id |-> memory_id,
                      boost |-> boost]
    /\ cops' = cops + 1
    /\ UNCHANGED <<facts, edges, index, nextId, deletedIds, abortedIds>>
    /\ CoreFrame

\* MemvidMemory.apply_decay
ApplyDecay ==
    /\ LET d == apply_decay_to_memories(memories, Clock)
       IN  /\ memories' = d.memories
           /\ facts' = IF d.raised THEN facts ELSE apply_confidence_decay(facts, Clock)
           /\ edges' = IF d.raised THEN edges ELSE prune_weak_edges(edges, Null)
           /\ last' = [op |-> "apply_decay", raised |-> d.raised,
                       now_ts |-> Clock,
                       updated |-> IF d.raised THEN Null
                                   ELSE Cardinality(d.updated)]
    /\ cops' = cops + 1
    /\ UNCHANGED <<index, nextId, deletedIds, abortedIds>>
    /\ CoreFrame

\* The operations of the memory core, MaxCoreOps calls in all
CoreNext ==
    \/ TTick
    \/ cops < MaxCoreOps /\ Add
    \/ cops < MaxCoreOps /\ Search
    \/ cops < MaxCoreOps /\ Get
    \/ cops < MaxCoreOps /\ ListMemories
    \/ cops < MaxCoreOps /\ Delete
    \/ cops < MaxCoreOps /\ DeleteAll
    \/ cops < MaxCoreOps /\ ReinforceMemory
    \/ cops < MaxCoreOps /\ ApplyDecay

SpecCore == Init /\ [][CoreNext]_vars

\* The scoring of one direct hit, on its own.  The limits a caller asks for:
\* the least one, and the default of the query tool; the retriever is asked
\* for 3 * limit chunks, so the positions are 0 .. 3 * limit - 1
ScoreLimitArgs == {1, 10}

\* The saliences of the two memories compared: the bounds, the value read for
\* a memory without one, and a value between
SalienceLevels == {MIN_SALIENCE, 500, 914, MAX_SALIENCE}

\* One iteration of the first loop of search, taken for two memories that
\* differ in salience only: position i of the retriever's list (from 0), the
\* sector penalty, and the final score of each
ScoreDirectHit ==
    /\ \E limit \in ScoreLimitArgs, query_sector \in SECTORS,
          memory_sector \in SECTORS, lower \in SalienceLevels,
          higher \in SalienceLevels :
          \E i \in 0..(limit * 3 - 1) :
             /\ lower <= higher
             /\ last' = [op |-> "score", limit |-> limit, i |-> i,
                         sector_penalty |-> get_sector_penalty(query_sector,
                                                               memory_sector),
                         lower |-> lower, higher |-> higher,
                         score_lower |->
                            DirectScore(i + 1,
                                        get_sector_penalty(query_sector,
                                                           memory_sector),
                                        lower),
                         score_higher |->
                            DirectScore(i + 1,
                                        get_sector_penalty(query_sector,
                                                           memory_sector),
                                        higher)]
    /\ UNCHANGED <<facts, edges, memories, index, nextId, cops, deletedIds,
                   abortedIds>>
    /\ CoreFrame

\* The score is a function of the position, the penalty and the salience
\* alone: one hit is scored in a behaviour
ScoringNext ==
    \/ TTick
    \/ last.op = "init" /\ ScoreDirectHit

SpecScoring == Init /\ [][ScoringNext]_vars

\* The operations that write salience, MaxSalienceOps calls in all
SalienceNext ==
    \/ TTick
    \/ cops < MaxSalienceOps /\ Add
    \/ cops < MaxSalienceOps /\ ReinforceMemory
    \/ cops < MaxSalienceOps /\ ApplyDecay

SpecSalience == Init /\ [][SalienceNext]_vars

\* The core with an embedding backend that can fail, MaxCoreOps calls in all
BackendNext ==
    \/ TTick
    \/ cops < MaxCoreOps /\ Add
    \/ cops < MaxCoreOps /\ AddAborted
    \/ cops < MaxCoreOps /\ Search
    \/ cops < MaxCoreOps /\ SearchFailed
    \/ cops < MaxCoreOps /\ Get
    \/ cops < MaxCoreOps /\ Delete

SpecBackend == Init /\ [][BackendNext]_vars

----------------------------------------------------------------------------
(* Scope router: the state machine *)

\* What a call on the manager leaves alone in the other components
RouterFrame ==
    UNCHANGED <<now, facts, invalidated, decays, wvars, memories, index, cops,
                last, deletedIds, abortedIds, xp>>

\* DualMemoryManager.store, with MemvidMemory.add on the core chosen
Store ==
    /\ rops < MaxRouterOps
    /\ nextId <= MaxMemories
    /\ \E r \in RouteArgs, content \in Contents :
          LET route == Route(r.scope, r.semantic, r.metadata_scope)
              held == HoldingScope(route.target_scope)
              core == stores[held]
              mem_id == nextId
              mems == [id \in DOMAIN core.memories \cup {mem_id} |->
                          IF id = mem_id
                          THEN NewMemory(default_user, content, "semantic", {}, Clock)
                          ELSE core.memories[id]]
              idx == RebuiltIndex(mems, core.index)
          IN  /\ \E results \in Rankings(idx, waypoint_top_k) :
                  \E E \in {CreateWaypointsFrom(core.edges, mems, mem_id,
                                                results, 1)} :
                    LET added == save_metadata([core EXCEPT !.memories = mems,
                                                            !.index = idx,
                                                            !.edges = E])
                    IN  stores' = [stores EXCEPT ![held] =
                                     IF E # core.edges THEN save_waypoints(added)
                                     ELSE added]
              /\ lastR' = [op |-> "store", args |-> r, id |-> mem_id,
                           scope |-> route.target_scope,
                           classification |-> route.classification]
    /\ nextId' = nextId + 1
    /\ rops' = rops + 1
    /\ UNCHANGED nextFact
    /\ RouterFrame

\* DualMemoryManager.get
RouterGet ==
    /\ rops < MaxRouterOps
    /\ \E memory_id \in 1..(nextId - 1) :
          /\ lastR' = [op |-> "get", id |-> memory_id,
                       scope |-> router_get(stores, memory_id, default_user)]
          /\ stores' = router_get_stores(stores, memory_id, default_user)
    /\ rops' = rops + 1
    /\ UNCHANGED <<nextId, nextFact>>
    /\ RouterFrame

\* DualMemoryManager.recall
Recall ==
    /\ rops < MaxRouterOps
    /\ \E limit \in RecallLimits, expand_waypoints \in BOOLEAN,
          query_sector \in QuerySectors :
          LET fetch_limit == FetchLimit(limit)
          IN  \E pr \in Rankings(stores["project"].index,
                                 fetch_limit * search_top_k_factor),
                 ur \in Rankings(stores["user"].index,
                                 fetch_limit * search_top_k_factor) :
                 \E p \in {search_core(stores["project"], pr, default_user,
                                       fetch_limit, "", {}, query_sector,
                                       expand_waypoints, Clock)},
                    u \in {search_core(stores["user"], ur, default_user,
                                       fetch_limit, "", {}, query_sector,
                                       expand_waypoints, Clock)} :
                 LET project_results == Tagged(p.top_results,
                                               stores["project"].memories, "project")
                     user_results == Tagged(u.top_results,
                                            stores["user"].memories, "user")
                 IN  /\ stores' = [scope \in Scopes |->
                                     IF scope = "project" THEN p.core ELSE u.core]
                     /\ lastR' = [op |-> "recall", limit |-> limit,
                                  fetch_limit |-> fetch_limit,
                                  fetched |-> Len(project_results) + Len(user_results),
                                  results |-> merge_results(project_results,
                                                            user_results, limit)]
    /\ rops' = rops + 1
    /\ UNCHANGED <<nextId, nextFact>>
    /\ RouterFrame

\* DualMemoryManager.store_fact, with TemporalGraph.insert_fact on the core
\* chosen
StoreFact ==
    /\ rops < MaxRouterOps
    /\ nextFact <= MaxFacts
    /\ \E scope \in Scopes, subject \in Subjects, predicate \in Predicates,
          obj \in Objects, valid_from \in FactTimeArgs :
          IF ParseRaises(valid_from)
          THEN /\ lastR' = [op |-> "store_fact", scope |-> scope, id |-> Null,
                            subject |-> subject, valid_from |-> valid_from,
                            error |-> TRUE]
               /\ UNCHANGED <<stores, nextFact>>
          ELSE /\ stores' = [stores EXCEPT ![scope] =
                               save_facts([@ EXCEPT !.facts =
                                   insert_fact(@, nextFact, subject, predicate,
                                               obj, valid_from, 1000, Clock)])]
               /\ lastR' = [op |-> "store_fact", scope |-> scope, id |-> nextFact,
                            subject |-> subject, valid_from |-> valid_from,
                            error |-> FALSE]
               /\ nextFact' = nextFact + 1
    /\ rops' = rops + 1
    /\ UNCHANGED nextId
    /\ RouterFrame

\* DualMemoryManager.get_timeline
GetTimeline ==
    /\ rops < MaxRouterOps
    /\ \E subject \in Subjects, predicate \in PredicateFilters :
          lastR' = [op |-> "get_timeline", subject |-> subject,
                    predicate |-> predicate,
                    results |-> router_get_timeline(stores, subject, predicate)]
    /\ rops' = rops + 1
    /\ UNCHANGED <<stores, nextId, nextFact>>
    /\ RouterFrame

\* DualMemoryManager.list_memories
RouterList ==
    /\ rops < MaxRouterOps
    /\ \E limit \in LimitArgs, offset \in OffsetArgs, scope \in ScopeFilters :
          /\ lastR' = [op |-> "list", limit |-> limit, offset |-> offset,
                       scope |-> scope, now_ts |-> Clock,
                       results |-> router_list_memories(stores, default_user,
                                                        limit, offset, {}, "",
                                                        scope, Clock)]
          /\ stores' = router_list_stores(stores, default_user, limit, offset,
                                          {}, "", scope, Clock)
    /\ rops' = rops + 1
    /\ UNCHANGED <<nextId, nextFact>>
    /\ RouterFrame

\* ScopeClassifier.classify
Classify ==
    /\ rops < MaxRouterOps
    /\ \E project_score \in ScoreArgs, user_score \in ScoreArgs,
          metadata_scope \in MetadataScopes :
          lastR' = [op |-> "classify", project_score |-> project_score,
                    user_score |-> user_score, metadata_scope |-> metadata_scope,
                    result |-> classify(semantic_classify(project_score,
                                                          user_score),
                                        metadata_scope)]
    /\ rops' = rops + 1
    /\ UNCHANGED <<stores, nextId, nextFact>>
    /\ RouterFrame

\* The scope classifier on its own
ClassifierNext ==
    \/ TTick
    \/ Classify /\ UNCHANGED svars

SpecClassifier == Init /\ [][ClassifierNext]_vars

\* The operations of the manager on memories
RouterNext ==
    \/ TTick
    \/ Store /\ UNCHANGED svars
    \/ RouterGet /\ UNCHANGED svars
    \/ Recall /\ UNCHANGED svars
    \/ RouterList /\ UNCHANGED svars

SpecRouter == Init /\ [][RouterNext]_vars

\* The operations of the manager on facts
RouterFactsNext ==
    \/ TTick
    \/ StoreFact /\ UNCHANGED svars
    \/ GetTimeline /\ UNCHANGED svars

SpecRouterFacts == Init /\ [][RouterFactsNext]_vars

----------------------------------------------------------------------------
(* MCP server: handle_tool_call *)

\* The number of calls the server completes on the manager
MaxServerCalls == 2

\* The names of the calls: three tools of the server and a name it does not
\* know
ToolNames == {"memvid_store", "memvid_query", "memvid_get", "memvid_forget"}

\* The tools of ToolNames that handle_tool_call has a branch for
KnownTools == {"memvid_store", "memvid_query", "memvid_get"}

\* A call as the dispatch loop hands it over.  has_required tells whether the
\* arguments hold the keys the branch reads with arguments[...].
Calls == {[name |-> n, has_required |-> b, pos |-> "start"] : n \in ToolNames, b \in BOOLEAN}

\* A handler that awaits the index rebuild of a store
SuspensionPoints_InAdd == {"rebuild"}

\* The positions at which handle_tool_call, or a call it makes, gives the
\* event loop the control back.  The body of the coroutine has no await, and
\* DualMemoryManager and MemvidMemory are plain synchronous classes.
SuspensionPoints == {}

\* memory.store up to the index rebuild: the route, the new entry of
\* _memories and the metadata file
StoreUntilRebuild(call) ==
    /\ rops + Cardinality(suspended) < MaxRouterOps
    /\ nextId <= MaxMemories
    /\ \E r \in RouteArgs, content \in Contents :
          LET route == Route(r.scope, r.semantic, r.metadata_scope)
              held == HoldingScope(route.target_scope)
              core == stores[held]
              mem_id == nextId
              mems == [id \in DOMAIN core.memories \cup {mem_id} |->
                          IF id = mem_id
                          THEN NewMemory(default_user, content, "semantic", {}, Clock)
                          ELSE core.memories[id]]
          IN  /\ stores' = [stores EXCEPT ![held] =
                               save_metadata([core EXCEPT !.memories = mems])]
              /\ suspended' = suspended \cup
                    {[name |-> call.name, has_required |-> TRUE, pos |-> "rebuild",
                      held |-> held,
                      answer |-> [op |-> "store", args |-> r, id |-> mem_id,
                                  scope |-> route.target_scope,
                                  classification |-> route.classification]]}
    /\ nextId' = nextId + 1
    /\ UNCHANGED <<rops, lastR, lastS, nextFact>>

\* memory.store from the index rebuild on: the video, the waypoints and the
\* answer
StoreFromRebuild(call) ==
    /\ LET core == stores[call.held]
           idx == RebuiltIndex(core.memories, core.index)
       IN  \E results \in Rankings(idx, waypoint_top_k) :
              LET E == CreateWaypointsFrom(core.edges, core.memories,
                                           call.answer.id, results, 1)
                  built == [core EXCEPT !.index = idx, !.edges = E]
              IN  stores' = [stores EXCEPT ![call.held] =
                               IF E # core.edges THEN save_waypoints(built)
                               ELSE built]
    /\ lastR' = call.answer
    /\ rops' = rops + 1
    /\ suspended' = suspended \ {call}
    /\ lastS' = [name |-> call.name, outcome |-> "result"]
    /\ UNCHANGED <<nextId, nextFact>>

\* handle_tool_call, run from where the coroutine stands to its next
\* suspension point or to its end.  get_memory is called before the try
\* block: an exception of DualMemoryManager() leaves the coroutine, and
\* _memory stays None.  Inside the try block a missing required argument is
\* a KeyError and is answered as 'Error: <message>', like every other
\* exception of the branch.
HandleToolCall ==
    /\ \E call \in Calls \cup suspended,
          creation_fails \in IF manager = "none" THEN BOOLEAN ELSE {FALSE} :
          IF call.pos = "rebuild"
          THEN StoreFromRebuild(call) /\ UNCHANGED manager
          ELSE IF manager = "none" /\ creation_fails
          THEN /\ lastS' = [name |-> call.name, outcome |-> "propagated"]
               /\ UNCHANGED <<manager, suspended, rvars, nextId, nextFact>>
          ELSE /\ manager' = "created"
               /\ IF call.name \notin KnownTools
                  THEN /\ lastS' = [name |-> call.name, outcome |-> "unknown_tool"]
                       /\ UNCHANGED <<suspended, rvars, nextId, nextFact>>
                  ELSE IF ~call.has_required
                  THEN /\ lastS' = [name |-> call.name, outcome |-> "error_text"]
                       /\ UNCHANGED <<suspended, rvars, nextId, nextFact>>
                  ELSE IF call.name = "memvid_store"
                  THEN IF "rebuild" \in SuspensionPoints
                       THEN StoreUntilRebuild(call)
                       ELSE /\ Store
                            /\ lastS' = [name |-> call.name, outcome |-> "result"]
                            /\ UNCHANGED suspended
                  ELSE IF call.name = "memvid_query"
                  THEN /\ Recall
                       /\ lastS' = [name |-> call.name, outcome |-> "result"]
                       /\ UNCHANGED suspended
                  ELSE /\ RouterGet
                       /\ lastS' = [name |-> call.name,
                                    outcome |-> IF lastR'.scope = "none"
                                                THEN "not_found" ELSE "result"]
                       /\ UNCHANGED suspended
    /\ RouterFrame

\* The calls of the dispatch loop, in any order and with any arguments
ServerNext ==
    \/ TTick
    \/ rops < MaxServerCalls /\ HandleToolCall

SpecServer == Init /\ [][ServerNext]_vars

----------------------------------------------------------------------------
(* Temporal knowledge graph: properties *)

FactsOf(s, p) ==
    {fid \in DOMAIN facts : facts[fid].subject = s /\ facts[fid].predicate = p}

OpenFactsOf(s, p) == {fid \in FactsOf(s, p) : facts[fid].valid_to = Null}

\* Fact ids are given in call order: the facts of the pair were inserted with
\* strictly increasing valid_from.
InsertedInOrder(s, p) ==
    \A f, g \in FactsOf(s, p) :
        f < g => facts[f].valid_from < facts[g].valid_from

LatestAt(s, p, t) ==
    {f \in FactsOf(s, p) :
        /\ facts[f].valid_from <= t
        /\ \A g \in FactsOf(s, p) :
              facts[g].valid_from <= t => facts[g].valid_from <= facts[f].valid_from}

\* C3: after inserting facts for one (subject, predicate) with strictly
\* increasing valid_from v1 < ... < vn, query_at_time(subject, predicate, at=t)
\* returns exactly one fact for every t >= v1: the one with the greatest
\* valid_from <= t.  (Read in the claim's favour: no fact of the pair was
\* invalidated, and all have a confidence the query's threshold lets through.)
C3_QueryReturnsLatest ==
    \A s \in Subjects, p \in Predicates, t \in QueryTimes :
        ( /\ FactsOf(s, p) # {}
          /\ InsertedInOrder(s, p)
          /\ FactsOf(s, p) \cap invalidated = {}
          /\ \A f \in FactsOf(s, p) : facts[f].confidence >= min_confidence_default
          /\ \E f \in FactsOf(s, p) : facts[f].valid_from <= t )
        => /\ query_at_time(facts, s, p, "", t, min_confidence_default, Clock)
                = LatestAt(s, p, t)
           /\ Cardinality(LatestAt(s, p, t)) = 1

\* C4: every fact's valid_to is null or strictly greater than its valid_from.
C4_ValidToAfterValidFrom ==
    \A fid \in DOMAIN facts :
        facts[fid].valid_to = Null \/ facts[fid].valid_to > facts[fid].valid_from

\* C5: every stored fact's confidence lies in [0.1, 1].  (Read in the claim's
\* favour: a fact inserted with a confidence below 0.1, which insert_fact
\* stores as given and the decay never touches, is not counted against it.)
C5_ConfidenceInRange ==
    \A fid \in DOMAIN facts :
        \/ facts[fid].confidence \in ConfidenceArgs
        \/ (confidence_floor <= facts[fid].confidence /\ facts[fid].confidence <= 1000)

----------------------------------------------------------------------------
(* Waypoint graph: properties *)

ParentWeights(result, item) ==
    IF Len(item.path) = 2
    THEN {seed_weight}
    ELSE {result[j].weight : j \in {k \in 1..Len(result) :
             result[k].path = SubSeq(item.path, 1, Len(item.path) - 1)}}

----------------------------------------------------------------------------
(* Memory core: properties *)

\* C1: after any sequence of store, search, reinforce(id, boost) and
\* apply_decay calls that complete without error, every stored memory's
\* salience lies in [0, 1].
C1_SalienceInRange ==
    \A id \in DOMAIN memories :
        /\ memories[id].salience >= MIN_SALIENCE
        /\ memories[id].salience <= MAX_SALIENCE

\* C6: after a delete or a delete_all, following any sequence of operations,
\* the waypoint graph holds no edge whose source or destination is a deleted
\* memory id.
C6_NoEdgeOfDeleted ==
    \A s \in DOMAIN edges :
        /\ s \notin deletedIds
        /\ \A i \in 1..Len(edges[s]) : edges[s][i].id \notin deletedIds

\* C6 witness: a delete or delete_all has just removed a memory that had an
\* edge, while another memory remains.
C6_Witness ==
    /\ last.op \in {"delete", "delete_all"}
    /\ last.deleted # {}
    /\ last.had_edges
    /\ DOMAIN memories # {}

\* The calls that read memories for a tenant
ReadOps == {"get", "list", "search"}

\* C9: get, list and search (direct and waypoint-expanded hits) called for
\* tenant t never return a memory whose tenant id differs from t.
C9_ReadsStayInTenant ==
    last.op \in ReadOps =>
        \A i \in 1..Len(last.ids) :
            /\ last.ids[i] \in DOMAIN memories
            /\ memories[last.ids[i]].user_id = last.uid

\* C9 witness: a search with expansion returned a memory that has a waypoint
\* to a memory of another tenant.
C9_Witness ==
    /\ last.op = "search"
    /\ last.expand_waypoints
    /\ \E i \in 1..Len(last.ids) : \E m \in DOMAIN memories :
          /\ memories[m].user_id # last.uid
          /\ HasEdge(edges, last.ids[i], m)

\* The calls that write memories for a tenant
TenantWriteOps == {"delete", "delete_all", "search", "reinforce"}

\* C10: delete, delete_all, search-time reinforcement and the reinforce
\* operation, invoked for tenant t (the default tenant when none is given),
\* leave every memory of another tenant as it was: it still exists, with the
\* same salience, last_seen_at and coactivations.
C10_WritesStayInTenant ==
    [][last'.op \in TenantWriteOps =>
          \A id \in DOMAIN memories :
              memories[id].user_id # last'.uid =>
                  /\ id \in DOMAIN memories'
                  /\ memories'[id] = memories[id]]_vars

\* C11: every memory returned by a search with a tags filter carries at
\* least one of the requested tags, and with a sector filter has that
\* primary sector, whether it was a direct hit or was added by the expansion.
C11_SearchFiltersHold ==
    last.op = "search" =>
        \A i \in 1..Len(last.ids) :
            /\ last.tags # {} => memories[last.ids[i]].tags \cap last.tags # {}
            /\ last.sector # "" => memories[last.ids[i]].primary_sector = last.sector

----------------------------------------------------------------------------
(* Scope router: properties *)

\* The scopes whose core holds the memory
HoldersOf(memory_id) == {scope \in Scopes : memory_id \in DOMAIN stores[scope].memories}

\* C12: for every store call on the scope router (any value of the scope
\* argument), the new memory is held by exactly one of the two cores, and the
\* scope returned is 'project' or 'user' and names the core that holds it, so
\* that a following get(id) reports the same scope.
C12_StoreNamesHolder ==
    lastR.op = "store" =>
        /\ Cardinality(HoldersOf(lastR.id)) = 1
        /\ lastR.scope \in Scopes
        /\ HoldersOf(lastR.id) = {lastR.scope}
        /\ router_get(stores, lastR.id, default_user) = lastR.scope

\* C13: store with scope 'auto' routes to the project core if and only if the
\* classification is 'project' with confidence >= 0.65, and in every other
\* case to the user core; when the confidence is below 0.65 the returned
\* classification carries a warning; an explicit scope 'project' or 'user',
\* as the argument, or in the metadata when the argument is 'auto', decides
\* the core whatever the content is.
C13_AutoRouting ==
    lastR.op = "store" =>
        LET a == lastR.args
            c == classify(a.semantic, a.metadata_scope)
        IN  /\ a.scope = "auto" =>
                  /\ (lastR.id \in DOMAIN stores["project"].memories)
                        <=> (c.scope = "project" /\ c.confidence >= CONFIDENCE_THRESHOLD)
                  /\ (lastR.id \in DOMAIN stores["user"].memories)
                        <=> ~(c.scope = "project" /\ c.confidence >= CONFIDENCE_THRESHOLD)
                  /\ c.confidence < CONFIDENCE_THRESHOLD => lastR.classification.warning
            /\ a.scope \in Scopes => HoldersOf(lastR.id) = {a.scope}
            /\ (a.scope = "auto" /\ a.metadata_scope \in Scopes) =>
                  HoldersOf(lastR.id) = {a.metadata_scope}

\* C13 witness: a store with scope 'auto' of a content classified 'project'
\* with confidence exactly 0.65 went to the project core.
C13_Witness ==
    /\ lastR.op = "store"
    /\ lastR.args.scope = "auto"
    /\ lastR.args.metadata_scope = ""
    /\ lastR.args.semantic = [scope |-> "project", confidence |-> 650]
    /\ lastR.id \in DOMAIN stores["project"].memories

\* C14: recall returns at most limit results in non-increasing score order,
\* in which every project-scope result's score is 1.2 times the score its
\* core gave it and no two returned results have content similarity >= 0.9.
C14_RecallResults ==
    lastR.op = "recall" =>
        LET res == lastR.results
        IN  /\ Len(res) <= lastR.limit
            /\ \A i, j \in 1..Len(res) : i < j => res[i].score >= res[j].score
            /\ \A i \in 1..Len(res) :
                  res[i].scope = "project" =>
                      res[i].score = (res[i].core_score \div 100) * 12
            /\ \A i, j \in 1..Len(res) :
                  i # j => Dot(res[i].content, res[j].content) < DEDUP_THRESHOLD

\* C14 witness: a recall returned a project result and a user result.
C14_Witness ==
    /\ lastR.op = "recall"
    /\ \E i, j \in 1..Len(lastR.results) :
          lastR.results[i].scope = "project" /\ lastR.results[j].scope = "user"

\* C15: for every limit, recall requests exactly ceil(1.5 * limit) results
\* from each of the two cores.
C15_FetchIsCeil ==
    lastR.op = "recall" => lastR.fetch_limit = (3 * lastR.limit + 1) \div 2

\* The facts of a scope that match the arguments of the last get_timeline
MatchingFacts(scope) ==
    {fid \in DOMAIN stores[scope].facts :
        /\ stores[scope].facts[fid].subject = lastR.subject
        /\ \/ lastR.predicate = ""
           \/ stores[scope].facts[fid].predicate = lastR.predicate}

\* C16: get_timeline returns every fact (open or closed) matching the subject
\* and the optional predicate, ordered by non-decreasing valid_from,
\* including when facts for the subject exist in both scopes.
C16_TimelineOrdered ==
    lastR.op = "get_timeline" =>
        LET res == lastR.results
        IN  /\ \A scope \in Scopes :
                  {res[i].id : i \in {k \in 1..Len(res) : res[k].scope = scope}}
                     = MatchingFacts(scope)
            /\ Len(res) = Cardinality(MatchingFacts("project"))
                             + Cardinality(MatchingFacts("user"))
            /\ \A i, j \in 1..Len(res) : i < j => res[i].valid_from <= res[j].valid_from

\* The memories the last list of the manager is about: those of the default
\* tenant in the scopes asked for, as [id, scope] records
Listable ==
    {m \in [id : 1..(nextId - 1), scope : Scopes] :
        /\ lastR.scope \in {"", m.scope}
        /\ m.id \in DOMAIN stores[m.scope].memories
        /\ stores[m.scope].memories[m.id].user_id = default_user}

\* The sort key of a listed memory at the time of the last list
KeyOf(m) == ListKey(stores[m.scope].memories[m.id], lastR.now_ts)

\* C17: list returns the tenant's memories that pass the filters sorted by
\* the salience-times-recency key in descending order and then paged by
\* offset/limit; with no scope filter the ordering and the paging hold over
\* the memories of both scopes together.
C17_ListSortedAndPaged ==
    lastR.op = "list" =>
        LET res == lastR.results
        IN  /\ \A i \in 1..Len(res) : res[i] \in Listable
            /\ \A i, j \in 1..Len(res) : i < j =>
                  res[i] # res[j] /\ KeyOf(res[i]) >= KeyOf(res[j])
            /\ Len(res) = Min(lastR.limit,
                              Max(0, Cardinality(Listable) - lastR.offset))
            /\ \A i \in 1..Len(res) :
                  /\ Cardinality({m \in Listable : KeyOf(m) > KeyOf(res[i])})
                        <= lastR.offset + i - 1
                  /\ Cardinality({m \in Listable : KeyOf(m) >= KeyOf(res[i])})
                        >= lastR.offset + i

\* C18: reinforce on a memory with salience s in [0, 1] and boost in
\* [0.01, 0.5] yields a salience >= s and <= 1, sets last_seen_at to the
\* current time (never earlier than before), adds exactly 1 to coactivations,
\* and leaves the memory's other fields and the other memories unchanged.
C18_ReinforceContract ==
    [][(/\ cops' # cops
        /\ last'.op = "reinforce"
        /\ last'.boost = Null \/ (last'.boost >= 10 /\ last'.boost <= 500)
        /\ last'.id \in DOMAIN memories
        /\ memories[last'.id].salience >= MIN_SALIENCE
        /\ memories[last'.id].salience <= MAX_SALIENCE)
       => LET old == memories[last'.id]
              new == memories'[last'.id]
          IN  /\ DOMAIN memories' = DOMAIN memories
              /\ new.salience >= old.salience
              /\ new.salience <= MAX_SALIENCE
              /\ new.last_seen_at = Clock
              /\ new.last_seen_at >= old.last_seen_at
              /\ new.coactivations = old.coactivations + 1
              /\ new = [old EXCEPT !.salience = new.salience,
                                   !.last_seen_at = new.last_seen_at,
                                   !.coactivations = new.coactivations]
              /\ \A id \in DOMAIN memories \ {last'.id} :
                    memories'[id] = memories[id]]_vars

\* C18's case: a decayed memory was reinforced with a boost of the range, at
\* a later time than it was stored, and its salience grew
C18_Witness ==
    /\ last.op = "reinforce"
    /\ last.boost = 500
    /\ last.id \in DOMAIN memories
    /\ memories[last.id].coactivations = 1
    /\ memories[last.id].last_seen_at = Day(22)
    /\ memories[last.id].salience > 500
    /\ memories[last.id].salience < MAX_SALIENCE

\* C19: apply_decay never raises a memory's salience, rewrites a salience
\* only when it changes by more than 0.001, returns exactly the number of
\* memories whose stored salience it changed, and leaves last_seen_at and
\* coactivations unchanged.
C19_DecayContract ==
    [][(cops' # cops /\ last'.op = "apply_decay")
       => /\ DOMAIN memories' = DOMAIN memories
          /\ \A id \in DOMAIN memories :
                /\ memories'[id].salience <= memories[id].salience
                /\ memories'[id].salience # memories[id].salience =>
                      Abs(memories'[id].salience - memories[id].salience)
                          > significant_change
                /\ memories'[id].last_seen_at = memories[id].last_seen_at
                /\ memories'[id].coactivations = memories[id].coactivations
          /\ ~last'.raised =>
                last'.updated =
                    Cardinality({id \in DOMAIN memories :
                        memories'[id].salience # memories[id].salience})]_vars

\* C20: a reinforce request whose boost lies outside [0.01, 0.5] changes no
\* state: the target's salience, last_seen_at and coactivations are as
\* before the call.
C20_BadBoostChangesNothing ==
    [][(/\ cops' # cops
        /\ last'.op = "reinforce"
        /\ last'.boost # Null
        /\ last'.boost < 10 \/ last'.boost > 500)
       => memories' = memories]_vars

\* C21: a store request whose sector override is not one of the five sectors
\* changes no state: no memory is created, and the index and the waypoints
\* are as before the call.
C21_BadSectorChangesNothing ==
    [][(/\ cops' # cops
        /\ last'.op = "add"
        /\ last'.sector \notin SECTORS)
       => /\ memories' = memories
          /\ index' = index
          /\ edges' = edges]_vars

\* C22: a store_fact request whose valid_from cannot be parsed as a timestamp
\* is answered with an error and leaves the fact store unchanged: no fact is
\* added and no existing fact is closed or re-stamped.
C22_BadTimeChangesNothing ==
    [][(/\ rops' # rops
        /\ lastR'.op = "store_fact"
        /\ lastR'.valid_from = BadIso)
       => /\ lastR'.error
          /\ stores' = stores
          /\ nextFact' = nextFact]_vars

\* C22's case: a store_fact with an unparsable valid_from was refused while
\* the scope held an open fact of the same subject
C22_Witness ==
    /\ lastR.op = "store_fact"
    /\ lastR.valid_from = BadIso
    /\ lastR.error
    /\ \E fid \in DOMAIN stores[lastR.scope].facts :
          /\ stores[lastR.scope].facts[fid].subject = lastR.subject
          /\ stores[lastR.scope].facts[fid].valid_to = Null

\* C23: when the embedding backend is missing (no index built yet) or fails
\* during the query, search returns an empty list without raising and
\* without changing any memory or waypoint.
C23_SearchWithoutBackend ==
    [][(/\ cops' # cops
        /\ last'.op = "search"
        /\ last'.backend \in {"missing", "failing"})
       => /\ ~last'.raised
          /\ last'.ids = <<>>
          /\ memories' = memories
          /\ edges' = edges]_vars

\* C25: the read-only operations (get, list, stats, query_facts,
\* get_timeline) of the core and of the manager leave every stored memory
\* record unchanged: no field is added, removed or modified.
C25_ReadsChangeNoRecord ==
    [][/\ (/\ rops' # rops
           /\ lastR'.op \in {"get", "list", "stats", "query_facts", "get_timeline"})
          => \A scope \in Scopes :
                stores'[scope].memories = stores[scope].memories
       /\ (/\ cops' # cops
           /\ last'.op \in {"get", "list"})
          => memories' = memories]_vars

\* C26: after every completed operation each on-disk document
\* (memory_meta.json, waypoints.json, temporal_facts.json) equals the
\* in-memory state, so that re-opening a core from its directory yields
\* exactly the same memories, edges and facts.
C26_DiskEqualsMemory ==
    \A scope \in Scopes :
        /\ stores[scope].disk.memory_meta = stores[scope].memories
        /\ stores[scope].disk.waypoints = stores[scope].edges
        /\ stores[scope].disk.temporal_facts = stores[scope].facts
        /\ reopened(stores[scope]) = stores[scope]

\* C27: for every pair of group scores (project_score, user_score) that
\* mean cosine similarities can take (each in [-1, 1]) the scope classifier
\* returns a confidence in [0, 1].
C27_ConfidenceInUnitRange ==
    lastR.op = "classify" =>
        /\ lastR.result.confidence >= 0
        /\ lastR.result.confidence <= 1000

\* C29: if a store fails after its metadata write but before the index
\* rebuild completes, the new memory remains present in the metadata (get
\* returns it), and the next successful store on that core rebuilds the
\* index so that it contains every memory present in the metadata, the one
\* of the aborted store included.
C29_AbortedStoreRecovered ==
    [][/\ (cops' # cops /\ last'.op = "add" /\ last'.raised)
          => /\ last'.id \in DOMAIN memories'
             /\ memories'[last'.id].user_id = last'.uid
       /\ (cops' # cops /\ last'.op = "add" /\ ~last'.raised)
          => /\ index' = DOMAIN memories'
             /\ DOMAIN memories \subseteq DOMAIN memories'
             /\ (abortedIds \cap DOMAIN memories) \subseteq index']_vars

\* C29's case: a store succeeded after another one was aborted, and the
\* memory of the aborted store is in the metadata and in the index
C29_Witness ==
    /\ last.op = "add"
    /\ ~last.raised
    /\ \E id \in abortedIds \ {last.id} :
          id \in DOMAIN memories /\ id \in index

\* C30: after every completed store, delete or delete_all on a core the set
\* of memory ids in the embedding index equals the set of ids in the
\* metadata map.
C30_IndexMatchesMetadata ==
    (/\ last.op \in {"add", "delete", "delete_all"}
     /\ last.op = "add" => ~last.raised)
    => index = DOMAIN memories

\* C24 as stated: whatever the tool name and the arguments, handle_tool_call
\* returns a response: a result, 'Memory not found', 'Unknown tool: <name>' or
\* 'Error: <message>'; no exception leaves it, a failure to create the
\* manager included.
C24_EveryCallAnswered ==
    lastS.outcome \in {"none", "result", "not_found", "unknown_tool", "error_text"}

C31_ExpandTerminates ==
    xp.pc = "loop" => xp.iterations <= Len(xp.seed_ids) + Cardinality(WNodes)

\* An expansion has returned that was not cut by max_expansion and went
\* from a seed over an edge whose reverse edge leads back to the seed
C31_Witness ==
    /\ lastW.op = "expand"
    /\ xp.pc = "idle"
    /\ Len(lastW.result) < lastW.max_expansion
    /\ \E i \in 1..Len(lastW.result) :
          LET path == lastW.result[i].path
          IN  /\ HasEdge(edges, path[1], path[2])
              /\ HasEdge(edges, path[2], path[1])

\* The weight of the edge src_id -> dst_id
WeightOf(E, src_id, dst_id) ==
    LET inner == E[src_id]
    IN  inner[CHOOSE i \in 1..Len(inner) : inner[i].id = dst_id].weight

\* The product of (edge weight x 0.8) over the first n - 1 edges of the path,
\* in ten-thousandths
RECURSIVE PathProduct(_, _, _)
PathProduct(E, path, n) ==
    IF n <= 1
    THEN 10000
    ELSE (PathProduct(E, path, n - 1) * WeightOf(E, path[n - 1], path[n]) * 8)
            \div 100000

\* C32: every item expand emits has a path that starts at a seed, ends at
\* the item's id and follows edges of the graph; its weight is the product
\* over the path's edges of (edge weight x 0.8); and no item has a weight
\* below min_weight.
C32_ExpandItems ==
    lastW.op = "expand" =>
        \A i \in 1..Len(lastW.result) :
            LET item == lastW.result[i]
                path == item.path
            IN  /\ Len(path) >= 2
                /\ path[1] \in SeqToSet(lastW.seed_ids)
                /\ path[Len(path)] = item.id
                /\ \A k \in 1..(Len(path) - 1) : HasEdge(edges, path[k], path[k + 1])
                /\ item.weight = PathProduct(edges, path, Len(path))
                /\ item.weight >= lastW.min_weight

\* An expansion with the default min_weight has emitted an item two hops from
\* its seed, over edges lighter than 1.0
C32_Witness ==
    /\ lastW.op = "expand"
    /\ lastW.min_weight = min_weight_default
    /\ \E i \in 1..Len(lastW.result) :
          /\ Len(lastW.result[i].path) = 3
          /\ lastW.result[i].weight < 6400

\* src_id and dst_id are consecutive ids of the path, in that order
OnPath(path, src_id, dst_id) ==
    \E k \in 1..(Len(path) - 1) : path[k] = src_id /\ path[k + 1] = dst_id

C34_SearchReinforcesReturned ==
    [][(cops' # cops /\ last'.op = "search" /\ ~last'.raised)
       => LET ids == last'.ids
              returned == SeqToSet(ids)
          IN  /\ \A i, j \in 1..Len(ids) : ids[i] = ids[j] => i = j
              /\ returned \subseteq DOMAIN memories
              /\ DOMAIN memories' = DOMAIN memories
              /\ \A id \in returned :
                    /\ memories'[id].coactivations = memories[id].coactivations + 1
                    /\ memories'[id].last_seen_at = Clock
              /\ \A id \in DOMAIN memories \ returned : memories'[id] = memories[id]
              /\ DOMAIN edges' = DOMAIN edges
              /\ \A src \in DOMAIN edges :
                    /\ Len(edges'[src]) = Len(edges[src])
                    /\ \A i \in 1..Len(edges[src]) :
                          /\ edges'[src][i].id = edges[src][i].id
                          /\ edges'[src][i].weight # edges[src][i].weight
                             => \E k \in 1..Len(ids) :
                                   OnPath(last'.paths[k], src, edges[src][i].id)]_vars

\* A search has returned a direct hit and a hit of the expansion, and the
\* edge the expansion went over has been reinforced
C34_Witness ==
    /\ last.op = "search"
    /\ Len(last.ids) = 2
    /\ \E k \in 1..2 :
          /\ Len(last.paths[k]) = 2
          /\ HasEdge(edges, last.paths[k][1], last.paths[k][2])
          /\ WeightOf(edges, last.paths[k][1], last.paths[k][2])
                > WeightOf(edges, last.paths[k][2], last.paths[k][1])

\* C35 as stated: an apply_decay that follows an apply_decay, with no time
\* elapsed and no call between them, leaves every memory's salience and every
\* fact's confidence as the first one left them.
C35_DecayIdempotent ==
    [][(/\ cops' # cops
        /\ last'.op = "apply_decay"
        /\ last.op = "apply_decay"
        /\ last.now_ts = Clock)
       => /\ \A id \in DOMAIN memories :
                memories'[id].salience = memories[id].salience
          /\ \A fid \in DOMAIN facts :
                facts'[fid].confidence = facts[fid].confidence]_vars

\* C36 as stated: apply_confidence_decay raises the confidence of no fact,
\* whether its valid_from is before, at or after the current time, and leaves
\* every closed fact as it was.
C36_DecayNeverRaisesConfidence ==
    [][decays' # decays
       => /\ DOMAIN facts' = DOMAIN facts
          /\ \A fid \in DOMAIN facts :
                /\ facts'[fid].confidence <= facts[fid].confidence
                /\ facts[fid].valid_to # Null => facts'[fid] = facts[fid]]_vars

\* C37: after any sequence of add, search, get, list, delete, delete_all,
\* reinforce and apply_decay, the source and the destination of every edge of
\* the waypoint graph are ids of memories the core holds.
C37_EdgesJoinStoredMemories ==
    \A src \in DOMAIN edges : \A i \in 1..Len(edges[src]) :
        /\ src \in DOMAIN memories
        /\ edges[src][i].id \in DOMAIN memories

\* A delete_all has removed a tenant's memory together with its edges to a
\* memory of another tenant, which remains
C37_Witness ==
    /\ last.op = "delete_all"
    /\ last.deleted # {}
    /\ last.had_edges
    /\ \E id \in DOMAIN memories : memories[id].user_id # last.uid

\* The memories of the core that are not the tenant's
OthersOf(uid) == {id \in DOMAIN memories : memories[id].user_id # uid}

\* What a search of the tenant can return from the core as it would be had no
\* other tenant stored a memory: the other tenants' memories, their chunks in
\* the video and their edges are taken away, and the backend may rank the
\* remaining chunks in any order.  Each outcome is <<ids, scores>>.
SearchesWithoutOthers(uid, sector, tags, expand_waypoints) ==
    LET others == OthersOf(uid)
        own_memories == Without(memories, others)
        own_edges == RemoveAll(edges, others)
        Outcome(results, limit, query_sector) ==
            LET t == TopResults(own_memories, own_edges, results, uid, limit,
                                sector, tags, query_sector, expand_waypoints)
            IN  <<Ids(t), Scores(t)>>
    IN  UNION {UNION {{Outcome(results, limit, query_sector) :
                          results \in Rankings(index \ others,
                                               limit * search_top_k_factor)} :
                      limit \in LimitArgs} :
               query_sector \in QuerySectors}

\* C38 as stated: the ids and the scores a tenant's search returns are ids
\* and scores the search can return from the same core without the memories
\* of the other tenants.
C38_SearchIgnoresOtherTenants ==
    [][(cops' # cops /\ last'.op = "search" /\ ~last'.raised)
       => <<last'.ids, last'.scores>>
             \in SearchesWithoutOthers(last'.uid, last'.sector, last'.tags,
                                       last'.expand_waypoints)]_vars

\* C39 as stated: a recall changes the salience, last_seen_at and
\* coactivations of no memory but those in the list it returns.
C39_RecallReinforcesReturned ==
    [][(rops' # rops /\ lastR'.op = "recall")
       => \A scope \in Scopes : \A id \in DOMAIN stores[scope].memories :
             (\A i \in 1..Len(lastR'.results) :
                 ~(lastR'.results[i].id = id /\ lastR'.results[i].scope = scope))
             => /\ stores'[scope].memories[id].salience
                     = stores[scope].memories[id].salience
                /\ stores'[scope].memories[id].last_seen_at
                     = stores[scope].memories[id].last_seen_at
                /\ stores'[scope].memories[id].coactivations
                     = stores[scope].memories[id].coactivations]_vars

\* C40: a direct hit with the higher salience never has the lower score of two
\* hits at the same position and sector penalty, and no score is negative
C40_ScoreMonotoneNonNegative ==
    last.op = "score"
       => /\ last.score_lower <= last.score_higher
          /\ last.score_lower >= 0
          /\ last.score_higher >= 0

====
